---- MODULE Spec2Model ----
(***************************************************************************)
(* A model of the PluginProxy transpiler: the document-tree walker         *)
(* (dom/extension.rs), the path tracker (dom/rbx_path.rs), the syntax      *)
(* rewrite visitor and source assembler (lib.rs) and the orchestration of  *)
(* DomTranspiler / the CLI routine (lib.rs, cli.rs).                       *)
(***************************************************************************)
EXTENDS Integers, Sequences, FiniteSets, TLC

\* ------------------------------------------------------------------ bounds
\* Nodes of the document tree besides the WeakDom root.
MaxNodes == 4
\* Largest depth bound handed to a free-standing foreach_descendant call.
MaxDepthBound == 3
\* Longest suffix chain of an expression of the rewrite inputs.
MaxSuffixes == 2
\* Most statements of a source of the assembly inputs.
MaxStmts == 3
\* Largest path_depth handed to a free-standing transpile_source call.
MaxPathDepth == 2
\* Nodes of a document handed to DomTranspiler besides the WeakDom root.
MaxDocNodes == 3
\* Largest depth handed to DotPath::new_ancestor_path.
MaxAncestors == 3
\* Most push and pop calls made on one DotPath.
MaxPathOps == 6

VARIABLES
    parent,        \* WeakDom: node -> its parent (the root is its own parent)
    class,         \* Instance.class
    source,        \* Instance.properties["Source"]
    name,          \* Instance.name
    pc,            \* position of the running operation
    caller,        \* which closure foreach_descendant is running for
    queue,         \* foreach_descendant: the explicit stack of (node, path)
    cur,           \* foreach_descendant: the node popped from the stack
    path,          \* foreach_descendant: the DotPath components of the popped entry
    idx,           \* foreach_descendant: position in current.children()
    depthBound,    \* foreach_descendant: the depth argument
    breakAt,       \* the free-standing visitor returns Break at this visit (0: never)
    walkStart,     \* the parent argument of the running foreach_descendant
    visited,       \* every visitor invocation so far: [node, path]
    srcText,       \* transpile_source: the source argument
    srcDepth,      \* transpile_source: the path_depth argument
    srcParsed,     \* transpile_source: what full_moon::parse returned
    srcAst,        \* transpile_source: the ast being rewritten and assembled
    srcRequires,   \* transpile_source: visitor.requires
    input,         \* the document as it was loaded: [class, source]
    sourceScript,  \* DomTranspiler.source_script
    excludeLibs,   \* DomTranspiler.exclude_libs
    scriptStack,   \* transpile_tree: script_stack
    totalCount,    \* transpile_tree: total_count
    procIdx,       \* transpile_tree: position of the for-loop over script_stack
    processed,     \* every process_script call so far: [node, depth, ok]
    problem,       \* the Problem the run ended with
    outFile,       \* the output document: absent, partial or written
    inFile,        \* the input path and the file behind it: [ext, state]
    outPath,       \* the extension of the path given to save_to_file
    io,            \* every file operation attempted so far, in order
    dotPath,       \* a DotPath of its own: its components
    pathOps        \* what was done to it: [op, arg, depth], depth as read after the call

treeVars == <<parent, class, source, name>>
walkVars == <<caller, queue, cur, path, idx, depthBound, breakAt, walkStart, visited>>
srcVars == <<srcText, srcDepth, srcParsed, srcAst, srcRequires>>
runVars == <<input, sourceScript, excludeLibs, scriptStack, totalCount, procIdx, processed,
             problem, outFile, inFile, outPath, io>>
pathVars == <<dotPath, pathOps>>
vars == <<treeVars, pc, walkVars, srcVars, runVars, pathVars>>

\* ------------------------------------------------------------ document tree
Root == 0
Nodes == DOMAIN parent
NoNode == -1

\* Every ordered tree over Nodes: a node's children are listed in ascending
\* order, which is their order in Instance.children().
TreeShapes(n) == {p \in [0..n -> 0..n] : p[Root] = Root /\ \A c \in 1..n : p[c] < c}

RECURSIVE SortedSeq(_)
SortedSeq(S) ==
    IF S = {} THEN <<>>
    ELSE LET m == CHOOSE x \in S : \A y \in S : x <= y
         IN <<m>> \o SortedSeq(S \ {m})

\* Instance::children()
Children(n) == SortedSeq({c \in Nodes \ {Root} : parent[c] = n})

\* Distance from an ancestor a down to n; -1 when a is no ancestor-or-self of n.
RECURSIVE DistanceFrom(_, _)
DistanceFrom(a, n) ==
    IF n = a THEN 0
    ELSE IF n = Root THEN -1
    ELSE LET d == DistanceFrom(a, parent[n]) IN IF d < 0 THEN -1 ELSE d + 1

Descendants(a) == {n \in Nodes : DistanceFrom(a, n) > 0}

\* The names on the tree path from a (exclusive) down to n.
RECURSIVE NamesFrom(_, _)
NamesFrom(a, n) == IF n = a THEN <<>> ELSE Append(NamesFrom(a, parent[n]), name[n])

\* --------------------------------------------------------------- DotPath
DotPathDefault == <<>>
PathPush(p, component) == Append(p, component)
\* A faulty variant: pop removes nothing.
PathPopNothing(p) == p
\* self.components.pop(): an empty path stays empty
PathPop(p) == IF p = <<>> THEN p ELSE SubSeq(p, 1, Len(p) - 1)
PathDepth(p) == Len(p)

\* ------------------------------------------------------- foreach_descendant
Continue == "Continue"
Break == "Break"

\* let mut queue = vec![(parent, DotPath::default())]
WalkInit(start, depth, who) ==
    /\ queue' = <<[node |-> start, path |-> DotPathDefault]>>
    /\ cur' = NoNode
    /\ path' = DotPathDefault
    /\ idx' = 0
    /\ depthBound' = depth
    /\ walkStart' = start
    /\ caller' = who
    /\ visited' = <<>>

\* The for-loop over current.children() has an element left.
HasChild == cur # NoNode /\ idx <= Len(Children(cur))
CurChild == Children(cur)[idx]
\* path.push(&child.name): the path the visitor is given
ChildPath == PathPush(path, name[CurChild])

\* A faulty variant: the comparison is off by one.
PushesChildOffByOne(p, depth) == PathDepth(p) <= depth \/ depth = 0

\* if path.depth() < depth.into() || depth == 0 { queue.push((child, path.clone())) }
PushesChild(p, depth) == PathDepth(p) < depth \/ depth = 0

\* A faulty variant: Break leaves the for-loop only, not the walk.
WalkChildBreakLoop(action, donePc) ==
    /\ visited' = Append(visited, [node |-> CurChild, path |-> ChildPath])
    /\ IF action = Break
       THEN /\ queue' = queue
            /\ cur' = cur
            /\ path' = path
            /\ idx' = Len(Children(cur)) + 1
            /\ pc' = pc
       ELSE /\ queue' = IF PushesChild(ChildPath, depthBound)
                        THEN Append(queue, [node |-> CurChild, path |-> ChildPath])
                        ELSE queue
            /\ path' = PathPop(ChildPath)
            /\ idx' = idx + 1
            /\ cur' = cur
            /\ pc' = pc
    /\ UNCHANGED <<depthBound, walkStart, caller>>

\* One pass of the for-loop body, given the visitor's answer; Break returns
\* from foreach_descendant, to the caller's position donePc.
WalkChild(action, donePc) ==
    /\ visited' = Append(visited, [node |-> CurChild, path |-> ChildPath])
    /\ IF action = Break
       THEN /\ queue' = <<>>
            /\ cur' = NoNode
            /\ path' = DotPathDefault
            /\ idx' = 0
            /\ pc' = donePc
       ELSE /\ queue' = IF PushesChild(ChildPath, depthBound)
                        THEN Append(queue, [node |-> CurChild, path |-> ChildPath])
                        ELSE queue
            /\ path' = PathPop(ChildPath)
            /\ idx' = idx + 1
            /\ cur' = cur
            /\ pc' = pc
    /\ UNCHANGED <<depthBound, walkStart, caller>>

\* while let Some((current, mut path)) = queue.pop()
WalkPop ==
    /\ pc = "walk"
    /\ ~HasChild
    /\ queue # <<>>
    /\ cur' = queue[Len(queue)].node
    /\ path' = queue[Len(queue)].path
    /\ idx' = 1
    /\ queue' = SubSeq(queue, 1, Len(queue) - 1)
    /\ UNCHANGED <<treeVars, pathVars, srcVars, runVars, pc, caller, depthBound, breakAt, walkStart, visited>>

\* queue.pop() gave None: the walk is over.
WalkExhausted == pc = "walk" /\ ~HasChild /\ queue = <<>>

\* A free-standing call: the visitor answers Break at its breakAt-th invocation.
GenericAnswer == IF breakAt # 0 /\ Len(visited) + 1 = breakAt THEN Break ELSE Continue

GenericVisit ==
    /\ pc = "walk" /\ caller = "generic"
    /\ HasChild
    /\ WalkChild(GenericAnswer, "returned")
    /\ UNCHANGED <<treeVars, pathVars, srcVars, runVars, breakAt>>

GenericReturn ==
    /\ WalkExhausted /\ caller = "generic"
    /\ pc' = "returned"
    /\ cur' = NoNode
    /\ UNCHANGED <<treeVars, pathVars, srcVars, runVars, caller, queue, path, idx, depthBound, breakAt,
                   walkStart, visited>>

\* ------------------------------------------------------ tokens and trivia
\* A source text is the sequence of its lexemes: "\n" is a line break, " " and
\* "\t" are whitespace, a lexeme of CommentLexemes is a single-line comment.
\* A TokenReference is a token (its kind and the lexemes it prints as)
\* between its leading and its trailing trivia.
None == "None"
GLOBAL_VAR_NAME == "_proxyGlobals"
Marker == "-- Autogenerated with PluginProxy Transpiler"
CommentLexemes == {"-- c", Marker}
TriviaLexemes == {" ", "\t", "\n"} \cup CommentLexemes

\* TokenRefExt::new_type
NewType(kind, text) == [lead |-> <<>>, kind |-> kind, text |-> text, trail |-> <<>>]
\* TokenRefExt::new_identifier
NewIdentifier(identifier) == NewType("Identifier", identifier)
NewSymbol(symbol) == NewType("Symbol", <<symbol>>)
\* trivia(whitespace: Option<&str>)
Trivia(whitespace) == IF whitespace = None THEN <<>> ELSE <<whitespace>>
\* TokenRefExt::with_trivia
WithTrivia(t, leading, trailing) ==
    [lead |-> Trivia(leading), kind |-> t.kind, text |-> t.text, trail |-> Trivia(trailing)]
\* TokenReference::with_token: the trivia stay, the token is replaced
WithToken(t, kind, text) == [t EXCEPT !.kind = kind, !.text = text]
\* TokenRefExt::identifier
\* (an identifier is never empty: the empty text stands for Option::None)
NoIdentifier == <<>>
TokenIdentifier(t) == IF t.kind \in {"Identifier", "StringLiteral"} THEN t.text ELSE NoIdentifier
\* index_global!(s): the one identifier _proxyGlobals.s
IndexGlobal(s) == <<GLOBAL_VAR_NAME, ".", s>>

\* ------------------------------------------------------------ syntax tree
\* Expression: Symbol, String, VarName (Var::Name), FunctionCall,
\* VarExpression (Var::Expression); the last two have a prefix and suffixes.
SymbolExpr(t) == [e |-> "Symbol", token |-> t]
StringExpr(t) == [e |-> "String", token |-> t]
VarNameExpr(t) == [e |-> "VarName", token |-> t]
FunctionCallExpr(prefix, suffixes) == [e |-> "FunctionCall", prefix |-> prefix, suffixes |-> suffixes]
VarExpressionExpr(prefix, suffixes) == [e |-> "VarExpression", prefix |-> prefix, suffixes |-> suffixes]
HasAffixes(e) == e.e \in {"FunctionCall", "VarExpression"}

PrefixName(t) == [p |-> "Name", token |-> t]
PrefixExpression(expr) == [p |-> "Expression", expr |-> expr]

DotSuffix(dot, nameTok) == [s |-> "Dot", dot |-> dot, name |-> nameTok]
AnonymousCall(args) == [s |-> "AnonymousCall", args |-> args]
MethodCall(colon, nameTok, args) == [s |-> "MethodCall", colon |-> colon, name |-> nameTok, args |-> args]
IsCall(suffix) == suffix.s \in {"AnonymousCall", "MethodCall"}

ParenArgs(open, arguments, close) == [a |-> "Parentheses", open |-> open, arguments |-> arguments, close |-> close]
StringArgs(t) == [a |-> "String", token |-> t]
TableArgs(open, close) == [a |-> "TableConstructor", open |-> open, close |-> close]

LocalAssignment(localTok, nameTok, equal, expr) ==
    [st |-> "LocalAssignment", localTok |-> localTok, name |-> nameTok, equal |-> equal, expr |-> expr]
CallStmt(call) == [st |-> "FunctionCall", call |-> call]
NoLastStmt == [l |-> "None"]
ReturnStmt(t, returns) == [l |-> "Return", token |-> t, returns |-> returns]
MkAst(stmts, last, eof) == [stmts |-> stmts, last |-> last, eof |-> eof]
\* Expression::TableConstructor with one Field::NameKey; Expression::Function
NameKey(key, equal, value) == [key |-> key, equal |-> equal, value |-> value]
TableConstructorExpr(open, field, close) ==
    [e |-> "TableConstructor", open |-> open, field |-> field, close |-> close]
FunctionBody(open, parameter, close, block, endTok) ==
    [open |-> open, parameter |-> parameter, close |-> close, block |-> block, endTok |-> endTok]
FunctionExpr(t, body) == [e |-> "Function", token |-> t, body |-> body]

\* AffixExt for Prefix / Suffix
PrefixIdentifier(prefix) == IF prefix.p = "Name" THEN TokenIdentifier(prefix.token) ELSE NoIdentifier
SuffixIdentifier(suffix) == IF suffix.s = "Dot" THEN TokenIdentifier(suffix.name) ELSE NoIdentifier

\* ------------------------------------------------- the rewrite visitor
RequiresDefault == [globals |-> FALSE, plugin |-> FALSE, enums |-> FALSE]
\* A faulty variant: only the explicit flag counts.
RequiresGlobalsOnlyExplicit(r) == r.globals

\* Requires::globals()
RequiresGlobals(r) == r.globals \/ (r.plugin \/ r.enums)

IsReplacableEnum(node) ==
    /\ PrefixIdentifier(node.prefix) = <<"Enum">>
    /\ node.suffixes # <<>>
    /\ SuffixIdentifier(node.suffixes[1]) \in {<<"StudioStyleGuideColor">>, <<"StudioStyleGuideModifier">>}

IsSettingsCall(node) ==
    /\ PrefixIdentifier(node.prefix) = <<"settings">>
    /\ node.suffixes # <<>>
    /\ IsCall(node.suffixes[1])

\* A visit's result: the node it returns and the visitor's flags after it.
Visited(node, req) == [node |-> node, req |-> req]

\* PluginProxyVisitor::process_common (visit_var_expression, visit_function_call)
ProcessCommon(node, req) ==
    IF IsReplacableEnum(node)
    THEN Visited([node EXCEPT !.prefix = PrefixName(NewIdentifier(<<"Enums">>))],
                 [req EXCEPT !.enums = TRUE])
    ELSE IF IsSettingsCall(node)
    THEN Visited([node EXCEPT !.prefix = PrefixName(NewIdentifier(IndexGlobal("settings")))],
                 [req EXCEPT !.globals = TRUE])
    ELSE Visited(node, req)

\* nth_arg_string!(args, 0)
FirstArgString(args) ==
    IF args.a = "Parentheses"
    THEN IF args.arguments # <<>> /\ args.arguments[1].e = "String"
         THEN TokenIdentifier(args.arguments[1].token)
         ELSE NoIdentifier
    ELSE IF args.a = "String" THEN TokenIdentifier(args.token)
    ELSE NoIdentifier

\* The token whose trivia visit_expression hands on: the closing parenthesis,
\* the string argument, or a fresh Eof token.
ClosingToken(args) ==
    IF args.a = "Parentheses" THEN args.close
    ELSE IF args.a = "String" THEN args.token
    ELSE NewType("Eof", <<>>)

\* Option::None for a token reference
NoToken == [lead |-> <<>>, kind |-> "None", text |-> <<>>, trail |-> <<>>]

\* new_identifier_expression(identifier, token_reference)
NewIdentifierExpression(identifier, tokenRef) ==
    SymbolExpr(IF tokenRef = NoToken THEN NewType("Identifier", identifier)
               ELSE WithToken(tokenRef, "Identifier", identifier))

PluginLookupNames == {<<"FindFirstAncestorOfClass">>, <<"FindFirstAncestorWhichIsA">>}

\* What the body of the for-loop over the suffixes does with one suffix:
\* "plugin", "GetService" (both return from visit_expression) or "next".
SuffixRule(suffix) ==
    IF suffix.s # "MethodCall" \/ TokenIdentifier(suffix.name) = NoIdentifier THEN "next"
    ELSE IF TokenIdentifier(suffix.name) \in PluginLookupNames
    THEN IF FirstArgString(suffix.args) = <<"Plugin">> THEN "plugin" ELSE "next"
    ELSE IF TokenIdentifier(suffix.name) = <<"GetService">> THEN "GetService"
    ELSE "next"

\* The first suffix, in order, at which the loop returns; 0 when it runs out.
FirstRuleSuffix(suffixes) ==
    IF \E i \in 1..Len(suffixes) : SuffixRule(suffixes[i]) # "next"
    THEN CHOOSE i \in 1..Len(suffixes) :
            /\ SuffixRule(suffixes[i]) # "next"
            /\ \A j \in 1..(i - 1) : SuffixRule(suffixes[j]) = "next"
    ELSE 0

\* PluginProxyVisitor::visit_expression
VisitExpression(node, req) ==
    IF node.e # "FunctionCall" THEN Visited(node, req)
    ELSE LET i == FirstRuleSuffix(node.suffixes) IN
         IF i = 0 THEN Visited(node, req)
         ELSE LET suf == node.suffixes[i] IN
              IF SuffixRule(suf) = "plugin"
              THEN Visited(NewIdentifierExpression(<<"plugin">>, ClosingToken(suf.args)),
                           [req EXCEPT !.plugin = TRUE])
              ELSE Visited(FunctionCallExpr(PrefixName(NewIdentifier(<<GLOBAL_VAR_NAME>>)),
                                            <<DotSuffix(NewSymbol("."), NewIdentifier(<<"game">>)), suf>>),
                           [req EXCEPT !.globals = TRUE])

\* VisitorMut's traversal: a node's own visit_* first, then its children in
\* field order. Each step hands the node and the flags it produced to the next.
RECURSIVE VisitExprTree(_, _), VisitAffixed(_, _), VisitSuffixes(_, _), VisitExprList(_, _)

\* The visited head of a list before its visited tail
PrependVisited(x, t) == Visited(<<x>> \o t.node, t.req)

VisitExprListAfter(h, rest) == PrependVisited(h.node, VisitExprList(rest, h.req))

VisitExprList(exprs, req) ==
    IF exprs = <<>> THEN Visited(<<>>, req)
    ELSE VisitExprListAfter(VisitExprTree(Head(exprs), req), Tail(exprs))

WithArguments(suffix, r) == Visited([suffix EXCEPT !.args.arguments = r.node], r.req)

VisitSuffix(suffix, req) ==
    IF IsCall(suffix) /\ suffix.args.a = "Parentheses"
    THEN WithArguments(suffix, VisitExprList(suffix.args.arguments, req))
    ELSE Visited(suffix, req)

VisitSuffixesAfter(h, rest) == PrependVisited(h.node, VisitSuffixes(rest, h.req))

VisitSuffixes(suffixes, req) ==
    IF suffixes = <<>> THEN Visited(<<>>, req)
    ELSE VisitSuffixesAfter(VisitSuffix(Head(suffixes), req), Tail(suffixes))

WithPrefixExpression(r) == Visited(PrefixExpression(r.node), r.req)

VisitPrefix(prefix, req) ==
    IF prefix.p = "Expression"
    THEN WithPrefixExpression(VisitExprTree(prefix.expr, req))
    ELSE Visited(prefix, req)

WithAffixes(node, prefix, s) == Visited([node EXCEPT !.prefix = prefix, !.suffixes = s.node], s.req)
VisitAffixedSuffixes(node, p) == WithAffixes(node, p.node, VisitSuffixes(node.suffixes, p.req))
VisitAffixedPrefix(c) == VisitAffixedSuffixes(c.node, VisitPrefix(c.node.prefix, c.req))

\* FunctionCall::visit_mut and VarExpression::visit_mut
VisitAffixed(node, req) == VisitAffixedPrefix(ProcessCommon(node, req))

VisitExprChildren(r) == IF HasAffixes(r.node) THEN VisitAffixed(r.node, r.req) ELSE r

\* Expression::visit_mut
VisitExprTree(expr, req) == VisitExprChildren(VisitExpression(expr, req))

WithExpr(stmt, r) == Visited([stmt EXCEPT !.expr = r.node], r.req)
WithCall(stmt, r) == Visited([stmt EXCEPT !.call = r.node], r.req)

\* Stmt::visit_mut
VisitStmt(stmt, req) ==
    IF stmt.st = "LocalAssignment"
    THEN WithExpr(stmt, VisitExprTree(stmt.expr, req))
    ELSE WithCall(stmt, VisitAffixed(stmt.call, req))

RECURSIVE VisitStmts(_, _)
VisitStmtsAfter(h, rest) == PrependVisited(h.node, VisitStmts(rest, h.req))

VisitStmts(stmts, req) ==
    IF stmts = <<>> THEN Visited(<<>>, req)
    ELSE VisitStmtsAfter(VisitStmt(Head(stmts), req), Tail(stmts))

WithReturns(last, r) == Visited([last EXCEPT !.returns = r.node], r.req)

\* LastStmt::visit_mut
VisitLastStmt(last, req) ==
    IF last.l = "Return"
    THEN WithReturns(last, VisitExprList(last.returns, req))
    ELSE Visited(last, req)

WithNodes(stmts, l, eof) == Visited(MkAst(stmts, l.node, eof), l.req)
VisitAstLast(ast, s) == WithNodes(s.node, VisitLastStmt(ast.last, s.req), ast.eof)

\* VisitorMut::visit_ast
VisitAst(ast, req) == VisitAstLast(ast, VisitStmts(ast.stmts, req))

\* ------------------------------------------------------ DotPath rendering
RECURSIVE Repeat(_, _)
Repeat(x, n) == IF n <= 0 THEN <<>> ELSE <<x>> \o Repeat(x, n - 1)

\* DotPath::new_ancestor_path: depth components "Parent"
\* A faulty variant: one component too many.
NewAncestorPathOneMore(depth) == Repeat(<<"Parent">>, depth + 1)

NewAncestorPath(depth) == Repeat(<<"Parent">>, depth)

\* DotPath::join over a root and components that are sequences themselves
RECURSIVE JoinComponents(_, _)
JoinComponents(components, separator) ==
    IF components = <<>> THEN <<>>
    ELSE <<separator>> \o Head(components) \o JoinComponents(Tail(components), separator)

Join(root, components, separator) == root \o JoinComponents(components, separator)

\* Display for DotPath: script.Parent.Parent, as lexemes
PathToString(components) == Join(<<"script">>, components, ".")

\* -------------------------------------------- synthesized declarations
\* LocalAssignment::new's default local token is followed by one space.
LocalToken == [lead |-> <<>>, kind |-> "Symbol", text |-> <<"local">>, trail |-> <<" ">>]
EqualToken == WithTrivia(NewSymbol("="), " ", " ")

\* new_local_assignment(name, expression)
NewLocalAssignment(nameText, expression) ==
    LocalAssignment(LocalToken, NewIdentifier(nameText), EqualToken, expression)

\* new_global_require(depth)
NewGlobalRequire(depth) ==
    LET requireFunc ==
            FunctionCallExpr(
                PrefixName(NewIdentifier(<<"require">>)),
                <<AnonymousCall(ParenArgs(NewSymbol("("),
                      <<NewIdentifierExpression(PathToString(NewAncestorPath(depth)), NoToken)>>,
                      NewSymbol(")")))>>)
    IN NewLocalAssignment(<<GLOBAL_VAR_NAME>>,
           VarExpressionExpr(PrefixExpression(requireFunc),
               <<DotSuffix(NewSymbol("."),
                           WithTrivia(NewIdentifier(<<"Globals">>), None, "\n"))>>))

\* The plugin-handle and enum-table declarations of transpile_source
GlobalMemberDeclaration(member) ==
    NewLocalAssignment(<<member>>,
        SymbolExpr(WithTrivia(NewIdentifier(IndexGlobal(member)), None, "\n")))

AppendTrail(t, trivia) == [t EXCEPT !.trail = t.trail \o trivia]

\* The last token of a node gets the trivia appended to its trailing trivia.
ArgsAppendTrail(args, trivia) ==
    IF args.a = "String" THEN [args EXCEPT !.token = AppendTrail(args.token, trivia)]
    ELSE [args EXCEPT !.close = AppendTrail(args.close, trivia)]

SuffixAppendTrail(suffix, trivia) ==
    IF suffix.s = "Dot" THEN [suffix EXCEPT !.name = AppendTrail(suffix.name, trivia)]
    ELSE [suffix EXCEPT !.args = ArgsAppendTrail(suffix.args, trivia)]

ExprAppendTrail(expr, trivia) ==
    IF ~HasAffixes(expr) THEN [expr EXCEPT !.token = AppendTrail(expr.token, trivia)]
    ELSE IF expr.suffixes = <<>>
    THEN [expr EXCEPT !.prefix.token = AppendTrail(expr.prefix.token, trivia)]
    ELSE [expr EXCEPT !.suffixes[Len(expr.suffixes)] =
                          SuffixAppendTrail(expr.suffixes[Len(expr.suffixes)], trivia)]

\* UpdateTrailingTrivia for Stmt with FormatTriviaType::Append
UpdateTrailingTrivia(stmt, trivia) ==
    IF stmt.st = "LocalAssignment"
    THEN [stmt EXCEPT !.expr = ExprAppendTrail(stmt.expr, trivia)]
    ELSE [stmt EXCEPT !.call = ExprAppendTrail(stmt.call, trivia)]

\* The single-line comment " Autogenerated with PluginProxy Transpiler\n\n"
MarkerTrivia == <<Marker, "\n", "\n">>

\* The requires vector of transpile_source before the marker is attached.
\* A faulty variant: the globals-require comes after the declarations that use it.
RequiresDeclarationsGlobalsLast(req, pathDepth) ==
    (IF req.plugin \/ pathDepth = 0 THEN <<GlobalMemberDeclaration("plugin")>> ELSE <<>>)
    \o (IF req.enums THEN <<GlobalMemberDeclaration("Enums")>> ELSE <<>>)
    \o (IF RequiresGlobals(req) /\ pathDepth > 0 THEN <<NewGlobalRequire(pathDepth)>> ELSE <<>>)

\* let mut requires = Vec::with_capacity(3), and the three pushes
RequiresDeclarations(req, pathDepth) ==
    (IF RequiresGlobals(req) /\ pathDepth > 0 THEN <<NewGlobalRequire(pathDepth)>> ELSE <<>>)
    \o (IF req.plugin \/ pathDepth = 0 THEN <<GlobalMemberDeclaration("plugin")>> ELSE <<>>)
    \o (IF req.enums THEN <<GlobalMemberDeclaration("Enums")>> ELSE <<>>)

\* A faulty variant: the marker goes to the first declaration.
AssembleMarkFirst(ast, req, pathDepth) ==
    LET requires == RequiresDeclarations(req, pathDepth) IN
    IF requires = <<>> THEN ast
    ELSE LET marked == [requires EXCEPT ![1] = UpdateTrailingTrivia(requires[1], MarkerTrivia)]
         IN MkAst(marked \o ast.stmts, ast.last, ast.eof)

\* if let Some(last_req) = requires.last_mut() { ... }
Assemble(ast, req, pathDepth) ==
    LET requires == RequiresDeclarations(req, pathDepth) IN
    IF requires = <<>> THEN ast
    ELSE LET marked == [requires EXCEPT ![Len(requires)] =
                            UpdateTrailingTrivia(requires[Len(requires)], MarkerTrivia)]
         IN MkAst(marked \o ast.stmts, ast.last, ast.eof)

\* ------------------------------------------------------ full_moon::print
PrintToken(t) ==
    t.lead \o (IF t.kind = "StringLiteral" THEN <<"\"">> \o t.text \o <<"\"">> ELSE t.text) \o t.trail

RECURSIVE PrintExpr(_), PrintExprList(_), PrintSuffixes(_), PrintBlock(_)

PrintArgs(args) ==
    IF args.a = "Parentheses"
    THEN PrintToken(args.open) \o PrintExprList(args.arguments) \o PrintToken(args.close)
    ELSE IF args.a = "String" THEN PrintToken(args.token)
    ELSE PrintToken(args.open) \o PrintToken(args.close)

PrintSuffix(suffix) ==
    IF suffix.s = "Dot" THEN PrintToken(suffix.dot) \o PrintToken(suffix.name)
    ELSE IF suffix.s = "MethodCall"
    THEN PrintToken(suffix.colon) \o PrintToken(suffix.name) \o PrintArgs(suffix.args)
    ELSE PrintArgs(suffix.args)

PrintSuffixes(suffixes) ==
    IF suffixes = <<>> THEN <<>>
    ELSE PrintSuffix(Head(suffixes)) \o PrintSuffixes(Tail(suffixes))

\* The commas of a Punctuated list print as "," and one space.
PrintExprList(exprs) ==
    IF exprs = <<>> THEN <<>>
    ELSE IF Len(exprs) = 1 THEN PrintExpr(exprs[1])
    ELSE PrintExpr(exprs[1]) \o <<",", " ">> \o PrintExprList(Tail(exprs))

\* The parameters and the fields print like a Punctuated list of one element.
PrintFunctionBody(body) ==
    PrintToken(body.open) \o PrintToken(body.parameter) \o PrintToken(body.close)
    \o PrintBlock(body.block) \o PrintToken(body.endTok)

PrintExpr(expr) ==
    IF expr.e = "TableConstructor"
    THEN PrintToken(expr.open) \o PrintToken(expr.field.key) \o PrintToken(expr.field.equal)
         \o PrintExpr(expr.field.value) \o PrintToken(expr.close)
    ELSE IF expr.e = "Function" THEN PrintToken(expr.token) \o PrintFunctionBody(expr.body)
    ELSE IF ~HasAffixes(expr) THEN PrintToken(expr.token)
    ELSE (IF expr.prefix.p = "Name" THEN PrintToken(expr.prefix.token)
          ELSE PrintExpr(expr.prefix.expr))
         \o PrintSuffixes(expr.suffixes)

PrintStmt(stmt) ==
    IF stmt.st = "LocalAssignment"
    THEN PrintToken(stmt.localTok) \o PrintToken(stmt.name) \o PrintToken(stmt.equal)
         \o PrintExpr(stmt.expr)
    ELSE PrintExpr(stmt.call)

RECURSIVE PrintStmts(_)
PrintStmts(stmts) ==
    IF stmts = <<>> THEN <<>> ELSE PrintStmt(Head(stmts)) \o PrintStmts(Tail(stmts))

PrintLastStmt(last) ==
    IF last.l = "Return" THEN PrintToken(last.token) \o PrintExprList(last.returns) ELSE <<>>

PrintBlock(block) == PrintStmts(block.stmts) \o PrintLastStmt(block.last)

PrintAst(ast) == PrintBlock(ast) \o PrintToken(ast.eof)

\* ------------------------------------------------------ full_moon::parse
SymbolLexemes == {"local", "return", "=", ".", ":", "(", ")", ",", "{", "}", "function", "end"}

\* The first position at or after i that holds no trivia.
RECURSIVE SkipTrivia(_, _)
SkipTrivia(text, i) ==
    IF i <= Len(text) /\ text[i] \in TriviaLexemes THEN SkipTrivia(text, i + 1) ELSE i

\* The position after a token's trailing trivia: the trivia on the token's
\* line, its line break included.
RECURSIVE SkipTrailing(_, _)
SkipTrailing(text, i) ==
    IF i > Len(text) \/ text[i] \notin TriviaLexemes THEN i
    ELSE IF text[i] = "\n" THEN i + 1
    ELSE SkipTrailing(text, i + 1)

\* The closing quote of the string literal opened before position i; 0 if none.
RECURSIVE ClosingQuote(_, _)
ClosingQuote(text, i) ==
    IF i > Len(text) \/ text[i] = "\n" THEN 0
    ELSE IF text[i] = "\"" THEN i
    ELSE ClosingQuote(text, i + 1)

\* The tokenizer: the TokenReferences of a text, Eof last; a token of kind
\* Error ends the sequence when a string literal is not closed.
RECURSIVE Tokens(_, _)
Tokens(text, i) ==
    LET j == SkipTrivia(text, i)
        lead == SubSeq(text, i, j - 1)
    IN IF j > Len(text)
       THEN <<[lead |-> lead, kind |-> "Eof", text |-> <<>>, trail |-> <<>>]>>
       ELSE IF text[j] = "\""
       THEN LET k == ClosingQuote(text, j + 1)
                n == SkipTrailing(text, k + 1)
            IN IF k = 0 THEN <<NewType("Error", <<>>)>>
               ELSE <<[lead |-> lead, kind |-> "StringLiteral", text |-> SubSeq(text, j + 1, k - 1),
                       trail |-> SubSeq(text, k + 1, n - 1)]>> \o Tokens(text, n)
       ELSE LET n == SkipTrailing(text, j + 1)
            IN <<[lead |-> lead,
                  kind |-> IF text[j] \in SymbolLexemes THEN "Symbol" ELSE "Identifier",
                  text |-> <<text[j]>>,
                  trail |-> SubSeq(text, j + 1, n - 1)]>> \o Tokens(text, n)

NoAst == [stmts |-> <<>>, last |-> [l |-> "None"], eof |-> NoToken]
ParseFail == [ok |-> FALSE, node |-> NoAst, next |-> 0]
Parsed(node, next) == [ok |-> TRUE, node |-> node, next |-> next]
IsSymbolAt(ts, i, symbol) == i <= Len(ts) /\ ts[i].kind = "Symbol" /\ ts[i].text = <<symbol>>
IsKindAt(ts, i, kind) == i <= Len(ts) /\ ts[i].kind = kind

RECURSIVE ParseExpr(_, _), ParseExprList(_, _), ParseSuffixes(_, _)

\* One more element before an already parsed rest
Prepend(x, t) == IF t.ok THEN Parsed(<<x>> \o t.node, t.next) ELSE ParseFail

ClosedArgs(ts, open, l) ==
    IF l.ok /\ IsSymbolAt(ts, l.next, ")")
    THEN Parsed(ParenArgs(open, l.node, ts[l.next]), l.next + 1)
    ELSE ParseFail

ParseArgs(ts, i) ==
    IF IsSymbolAt(ts, i, "(")
    THEN IF IsSymbolAt(ts, i + 1, ")")
         THEN Parsed(ParenArgs(ts[i], <<>>, ts[i + 1]), i + 2)
         ELSE ClosedArgs(ts, ts[i], ParseExprList(ts, i + 1))
    ELSE IF IsKindAt(ts, i, "StringLiteral") THEN Parsed(StringArgs(ts[i]), i + 1)
    ELSE IF IsSymbolAt(ts, i, "{") /\ IsSymbolAt(ts, i + 1, "}")
    THEN Parsed(TableArgs(ts[i], ts[i + 1]), i + 2)
    ELSE ParseFail

ExprListAfter(ts, h) ==
    IF ~h.ok THEN ParseFail
    ELSE IF IsSymbolAt(ts, h.next, ",") THEN Prepend(h.node, ParseExprList(ts, h.next + 1))
    ELSE Parsed(<<h.node>>, h.next)

ParseExprList(ts, i) == ExprListAfter(ts, ParseExpr(ts, i))

MethodCallAfter(ts, colon, nameTok, a) ==
    IF a.ok THEN Prepend(MethodCall(colon, nameTok, a.node), ParseSuffixes(ts, a.next)) ELSE ParseFail

AnonymousCallAfter(ts, a) ==
    IF a.ok THEN Prepend(AnonymousCall(a.node), ParseSuffixes(ts, a.next)) ELSE ParseFail

ParseSuffixes(ts, i) ==
    IF IsSymbolAt(ts, i, ".")
    THEN IF IsKindAt(ts, i + 1, "Identifier")
         THEN Prepend(DotSuffix(ts[i], ts[i + 1]), ParseSuffixes(ts, i + 2))
         ELSE ParseFail
    ELSE IF IsSymbolAt(ts, i, ":")
    THEN IF IsKindAt(ts, i + 1, "Identifier")
         THEN MethodCallAfter(ts, ts[i], ts[i + 1], ParseArgs(ts, i + 2))
         ELSE ParseFail
    ELSE IF IsSymbolAt(ts, i, "(") \/ IsSymbolAt(ts, i, "{") \/ IsKindAt(ts, i, "StringLiteral")
    THEN AnonymousCallAfter(ts, ParseArgs(ts, i))
    ELSE Parsed(<<>>, i)

\* A name and its suffixes: a variable, a call, or an indexing expression
AffixedAfter(nameTok, s) ==
    IF ~s.ok THEN ParseFail
    ELSE IF s.node = <<>> THEN Parsed(VarNameExpr(nameTok), s.next)
    ELSE IF IsCall(s.node[Len(s.node)])
    THEN Parsed(FunctionCallExpr(PrefixName(nameTok), s.node), s.next)
    ELSE Parsed(VarExpressionExpr(PrefixName(nameTok), s.node), s.next)

ParseExpr(ts, i) ==
    IF IsKindAt(ts, i, "StringLiteral") THEN Parsed(StringExpr(ts[i]), i + 1)
    ELSE IF IsKindAt(ts, i, "Identifier") THEN AffixedAfter(ts[i], ParseSuffixes(ts, i + 1))
    ELSE ParseFail

LocalAssignmentAfter(ts, i, e) ==
    IF e.ok THEN Parsed(LocalAssignment(ts[i], ts[i + 1], ts[i + 2], e.node), e.next) ELSE ParseFail

CallStmtAfter(e) ==
    IF e.ok /\ e.node.e = "FunctionCall" THEN Parsed(CallStmt(e.node), e.next) ELSE ParseFail

ParseStmt(ts, i) ==
    IF IsSymbolAt(ts, i, "local")
    THEN IF IsKindAt(ts, i + 1, "Identifier") /\ IsSymbolAt(ts, i + 2, "=")
         THEN LocalAssignmentAfter(ts, i, ParseExpr(ts, i + 3))
         ELSE ParseFail
    ELSE CallStmtAfter(ParseExpr(ts, i))

\* A block up to the end of the text: its statements and its last statement.
RECURSIVE ParseBlock(_, _)

ReturnAfter(ts, returnTok, l) ==
    IF l.ok /\ IsKindAt(ts, l.next, "Eof")
    THEN Parsed(MkAst(<<>>, ReturnStmt(returnTok, l.node), ts[l.next]), l.next + 1)
    ELSE ParseFail

PrependStmt(x, t) ==
    IF t.ok THEN Parsed(MkAst(<<x>> \o t.node.stmts, t.node.last, t.node.eof), t.next) ELSE ParseFail

BlockAfter(ts, h) == IF h.ok THEN PrependStmt(h.node, ParseBlock(ts, h.next)) ELSE ParseFail

ParseBlock(ts, i) ==
    IF IsKindAt(ts, i, "Eof") THEN Parsed(MkAst(<<>>, NoLastStmt, ts[i]), i + 1)
    ELSE IF IsSymbolAt(ts, i, "return")
    THEN IF IsKindAt(ts, i + 1, "Eof")
         THEN Parsed(MkAst(<<>>, ReturnStmt(ts[i], <<>>), ts[i + 1]), i + 2)
         ELSE ReturnAfter(ts, ts[i], ParseExprList(ts, i + 1))
    ELSE BlockAfter(ts, ParseStmt(ts, i))

\* full_moon::parse(source): the syntax tree, or ~ok for a syntax error
Parse(text) == ParseBlock(Tokens(text, 1), 1)

\* --------------------------------------------------------------- names
DigitChars == <<"0", "1", "2", "3", "4", "5", "6", "7", "8", "9">>
NodeName(n) == <<"N", DigitChars[n + 1]>>

NoSource == [kind |-> "none"]

\* ------------------------------------------------------ transpile_source
\* DomTranspiler::transpile_source as a whole: the assembled ast, or ~ok
\* (Problem::TranspilerError).
AssembleVisited(v, pathDepth) == [ok |-> TRUE, ast |-> Assemble(v.node, v.req, pathDepth)]

TranspileParsed(parsed, pathDepth) ==
    IF ~parsed.ok THEN [ok |-> FALSE, ast |-> NoAst]
    ELSE AssembleVisited(VisitAst(parsed.node, RequiresDefault), pathDepth)

TranspileSource(text, pathDepth) == TranspileParsed(Parse(text), pathDepth)

\* let mut ast = visitor.visit_ast(full_moon::parse(source).map_err(..)?)
ParseSource ==
    /\ pc = "parse"
    /\ srcParsed' = Parse(srcText)
    /\ pc' = IF srcParsed'.ok THEN "visit" ELSE "failed"
    /\ UNCHANGED <<treeVars, pathVars, walkVars, runVars, srcText, srcDepth, srcAst, srcRequires>>

VisitSource ==
    /\ pc = "visit"
    /\ \E v \in {VisitAst(srcParsed.node, RequiresDefault)} :
          /\ srcAst' = v.node
          /\ srcRequires' = v.req
    /\ pc' = "assemble"
    /\ UNCHANGED <<treeVars, pathVars, walkVars, runVars, srcText, srcDepth, srcParsed>>

AssembleSource ==
    /\ pc = "assemble"
    /\ srcAst' = Assemble(srcAst, srcRequires, srcDepth)
    /\ pc' = "done"
    /\ UNCHANGED <<treeVars, pathVars, walkVars, runVars, srcText, srcDepth, srcParsed, srcRequires>>

NotParsed == [ok |-> FALSE, node |-> NoAst, next |-> -1]

\* No transpile_source call is in progress.
SrcIdle ==
    /\ srcText = <<>>
    /\ srcDepth = 0
    /\ srcParsed = NotParsed
    /\ srcAst = NoAst
    /\ srcRequires = RequiresDefault

\* The run of DomTranspiler has not begun.
\* No DotPath of its own is followed.
PathIdle ==
    /\ dotPath = DotPathDefault
    /\ pathOps = <<>>

\* RbxFileType::from_path on the extension of a path
FromPath(ext) ==
    IF ext \in {"rbxmx", "rbxlx"} THEN "XML"
    ELSE IF ext \in {"rbxm", "rbxl"} THEN "Binary"
    ELSE "InvalidExtension"

\* A DomTranspiler that has not run yet.
TranspilerIdle ==
    /\ input = [class |-> class, source |-> source]
    /\ sourceScript = NoNode
    /\ excludeLibs = TRUE
    /\ scriptStack = <<>>
    /\ totalCount = 0
    /\ procIdx = 0
    /\ processed = <<>>
    /\ problem = "none"
    /\ outFile = "absent"

\* The document came out of a readable binary file; the output goes to the
\* command line's default, out.rbxm.
FileIdle ==
    /\ inFile = [ext |-> "rbxm", state |-> "good"]
    /\ outPath = "rbxm"
    /\ io = <<"open", "read">>

RunIdle == TranspilerIdle /\ FileIdle

\* ------------------------------------------------------------ indent_string
\* str::lines: the pieces between line breaks, without a final empty piece
RECURSIVE LinesFrom(_, _)
LinesFrom(text, line) ==
    IF text = <<>> THEN (IF line = <<>> THEN <<>> ELSE <<line>>)
    ELSE IF Head(text) = "\n" THEN <<line>> \o LinesFrom(Tail(text), <<>>)
    ELSE LinesFrom(Tail(text), Append(line, Head(text)))

RECURSIVE IndentLines(_, _)
IndentLines(lines, isFirstLine) ==
    IF lines = <<>> THEN <<>>
    ELSE (IF ~isFirstLine THEN <<"\n">> ELSE <<>>)
         \o (IF Head(lines) # <<>> THEN <<"\t">> ELSE <<>>)
         \o Head(lines)
         \o IndentLines(Tail(lines), FALSE)

IndentString(s) == IndentLines(LinesFrom(s, <<>>), TRUE)

\* --------------------------------------------------------- wrap_main_source
\* Return::new() and TableConstructor::new() bring their default tokens:
\* "return " and the braces "{ " and " }"; FunctionBody::new() ends on "\nend".
DefaultReturnToken == [NewSymbol("return") EXCEPT !.trail = <<" ">>]

\* The printed wrapper around an already laid out code block.
WrapCodeBlock(codeBlock, eof) ==
    LET initFunc ==
            FunctionBody(
                NewSymbol("("),
                NewIdentifier(<<GLOBAL_VAR_NAME>>),
                [NewSymbol(")") EXCEPT !.trail = <<"\n">>],
                [stmts |-> <<>>, last |-> ReturnStmt(NewType("Identifier", codeBlock), <<>>)],
                [NewSymbol("end") EXCEPT !.lead = <<"\n">>])
        returns ==
            <<TableConstructorExpr(
                  [NewSymbol("{") EXCEPT !.trail = <<" ">>],
                  NameKey(NewIdentifier(<<"init">>),
                          WithTrivia(NewSymbol("="), " ", " "),
                          FunctionExpr(NewSymbol("function"), initFunc)),
                  [NewSymbol("}") EXCEPT !.lead = <<" ">>])>>
    IN PrintAst(MkAst(<<>>, ReturnStmt(DefaultReturnToken, returns), eof))

\* A faulty variant: the code block is not indented.
WrapMainSourceUnindented(ast) == WrapCodeBlock(PrintAst(ast), ast.eof)

\* let code_block = indent_string(full_moon::print(&ast));
WrapMainSource(ast) == WrapCodeBlock(IndentString(PrintAst(ast)), ast.eof)

\* ------------------------------------------------------------- is_excluded
\* A glob pattern is a sequence of: one literal character, one character
\* class, "*" (any run without "/"), a leading "**/" (any run of whole path
\* segments) and a closing "**" (the rest of the path).
GlobLit(c) == [g |-> "lit", chars |-> {c}]
GlobClass(cs) == [g |-> "lit", chars |-> cs]
GlobStar == [g |-> "star", chars |-> {}]
GlobSegments == [g |-> "segments", chars |-> {}]
GlobRest == [g |-> "rest", chars |-> {}]
GlobLits(str) == [i \in 1..Len(str) |-> GlobLit(str[i])]

RECURSIVE GlobFrom(_, _, _, _)
GlobFrom(pat, i, str, j) ==
    IF i > Len(pat) THEN j > Len(str)
    ELSE IF pat[i].g = "lit"
    THEN j <= Len(str) /\ str[j] \in pat[i].chars /\ GlobFrom(pat, i + 1, str, j + 1)
    ELSE IF pat[i].g = "star"
    THEN \E k \in j..(Len(str) + 1) :
            /\ \A m \in j..(k - 1) : str[m] # "/"
            /\ GlobFrom(pat, i + 1, str, k)
    ELSE IF pat[i].g = "segments"
    THEN \/ GlobFrom(pat, i + 1, str, j)
         \/ \E k \in j..Len(str) : str[k] = "/" /\ GlobFrom(pat, i + 1, str, k + 1)
    ELSE TRUE

GlobMatch(pat, str) == GlobFrom(pat, 1, str, 1)

\* "**/[Rr][eo]act*/**", "**/*jsdotlua*/**", "**/Fusion/**"
ReactGlob ==
    <<GlobSegments, GlobClass({"R", "r"}), GlobClass({"e", "o"})>>
    \o GlobLits(<<"a", "c", "t">>) \o <<GlobStar, GlobLit("/"), GlobRest>>
JsdotluaGlob ==
    <<GlobSegments, GlobStar>> \o GlobLits(<<"j", "s", "d", "o", "t", "l", "u", "a">>)
    \o <<GlobStar, GlobLit("/"), GlobRest>>
FusionGlob ==
    <<GlobSegments>> \o GlobLits(<<"F", "u", "s", "i", "o", "n">>) \o <<GlobLit("/"), GlobRest>>

\* DotPath::path_string: script/A/B/, character by character
PathString(components) == Join(<<"s", "c", "r", "i", "p", "t">>, components, "/") \o <<"/">>

\* A faulty variant: the exclude_libs flag is not consulted.
IsExcludedIgnoringFlag(p) ==
    GlobMatch(ReactGlob, p) \/ GlobMatch(JsdotluaGlob, p) \/ GlobMatch(FusionGlob, p)

\* DomTranspiler::is_excluded
IsExcluded(p) ==
    excludeLibs /\ (GlobMatch(ReactGlob, p) \/ GlobMatch(JsdotluaGlob, p) \/ GlobMatch(FusionGlob, p))

\* ----------------------------------------------------------- process_script
StringSource(text) == [kind |-> "string", text |-> text]

\* The node's class and Source after process_script(script, depth), and the
\* Result it returns.
ProcessTranspiled(n, depth, t) ==
    IF depth = 0
    THEN [ok |-> t.ok,
          err |-> IF t.ok THEN "none" ELSE "TranspilerError",
          class |-> "ModuleScript",
          source |-> IF t.ok THEN StringSource(WrapMainSource(t.ast)) ELSE source[n]]
    ELSE [ok |-> t.ok,
          err |-> IF t.ok THEN "none" ELSE "TranspilerError",
          class |-> class[n],
          source |-> IF t.ok THEN StringSource(PrintAst(t.ast)) ELSE source[n]]

ProcessScript(n, depth) ==
    IF source[n].kind # "string"
    THEN [ok |-> FALSE, err |-> "NoScriptSource", class |-> class[n], source |-> source[n]]
    ELSE ProcessTranspiled(n, depth, TranspileSource(source[n].text, depth))

\* -------------------------------------------------------- DomTranspiler::new
ScriptClasses == {"ModuleScript", "Script", "LocalScript"}
\* A faulty variant: only modules are accepted as the entry point.
ClassPredicateModulesOnly(c) == c = "ModuleScript"

\* |class| matches!(class, "ModuleScript" | "Script" | "LocalScript")
ClassPredicate(c) == c \in ScriptClasses
\* find_first_child_class reaches this many levels below the root
NewSearchDepth == 2

\* The visitor of find_first_child_class on one child
NewVisit ==
    /\ pc = "walk" /\ caller = "new"
    /\ HasChild
    /\ IF ClassPredicate(class[CurChild])
       THEN /\ sourceScript' = CurChild
            /\ WalkChild(Break, "built")
       ELSE /\ sourceScript' = sourceScript
            /\ WalkChild(Continue, "built")
    /\ UNCHANGED <<treeVars, pathVars, srcVars, breakAt, input, excludeLibs, scriptStack, totalCount,
                   procIdx, processed, problem, outFile,
                   inFile, outPath, io>>

\* The walk ended without a match: .ok_or(Problem::NoMainSource)?
NewReturn ==
    /\ WalkExhausted /\ caller = "new"
    /\ pc' = "failed"
    /\ problem' = "NoMainSource"
    /\ cur' = NoNode
    /\ UNCHANGED <<treeVars, pathVars, srcVars, caller, queue, path, idx, depthBound, breakAt, walkStart,
                   visited, input, sourceScript, excludeLibs, scriptStack, totalCount, procIdx,
                   processed, outFile,
                   inFile, outPath, io>>

\* DomTranspiler::exclude_libs, as the command line calls it
ExcludeLibs ==
    /\ pc = "built"
    /\ \E b \in BOOLEAN : excludeLibs' = b
    /\ pc' = "configured"
    /\ UNCHANGED <<treeVars, pathVars, srcVars, walkVars, input, sourceScript, scriptStack, totalCount,
                   procIdx, processed, problem, outFile,
                   inFile, outPath, io>>

\* ------------------------------------------------------------ transpile_tree
\* script_stack and total_count are fresh; the walk starts at source_script.
TranspileTree ==
    /\ pc = "configured"
    /\ scriptStack' = <<>>
    /\ totalCount' = 0
    /\ WalkInit(sourceScript, 0, "collect")
    /\ pc' = "walk"
    /\ UNCHANGED <<treeVars, pathVars, srcVars, breakAt, input, sourceScript, excludeLibs, procIdx,
                   processed, problem, outFile,
                   inFile, outPath, io>>

\* A faulty variant: every script class is collected.
CollectsAnyScript(c) == class[c] \in ScriptClasses

\* if child.class == "ModuleScript"
CollectsChild(c) == class[c] = "ModuleScript"

\* The closure transpile_tree hands to foreach_descendant
CollectVisit ==
    /\ pc = "walk" /\ caller = "collect"
    /\ HasChild
    /\ IF CollectsChild(CurChild)
       THEN /\ totalCount' = totalCount + 1
            /\ scriptStack' = IF ~IsExcluded(PathString(ChildPath))
                              THEN Append(scriptStack, [node |-> CurChild, depth |-> PathDepth(ChildPath)])
                              ELSE scriptStack
       ELSE UNCHANGED <<totalCount, scriptStack>>
    /\ WalkChild(Continue, "process")
    /\ UNCHANGED <<treeVars, pathVars, srcVars, breakAt, input, sourceScript, excludeLibs, procIdx,
                   processed, problem, outFile,
                   inFile, outPath, io>>

\* foreach_descendant returned: the for-loop over script_stack begins.
CollectReturn ==
    /\ WalkExhausted /\ caller = "collect"
    /\ pc' = "process"
    /\ procIdx' = 1
    /\ cur' = NoNode
    /\ UNCHANGED <<treeVars, pathVars, srcVars, caller, queue, path, idx, depthBound, breakAt, walkStart,
                   visited, input, sourceScript, excludeLibs, scriptStack, totalCount, processed,
                   problem, outFile,
                   inFile, outPath, io>>

\* process_script on node n takes effect; an Err leaves transpile_tree through `?`.
RunProcessScript(n, depth, nextPc) ==
    \E r \in {ProcessScript(n, depth)} :
    /\ class' = [class EXCEPT ![n] = r.class]
    /\ source' = [source EXCEPT ![n] = r.source]
    /\ processed' = Append(processed, [node |-> n, depth |-> depth, ok |-> r.ok])
    /\ problem' = r.err
    /\ pc' = IF r.ok THEN nextPc ELSE "failed"
    /\ UNCHANGED <<parent, name, pathVars, srcVars, walkVars, input, sourceScript, excludeLibs,
                   scriptStack, totalCount, outFile,
                   inFile, outPath, io>>

\* A faulty variant: processing starts while the walk is still collecting.
ProcessNextEarly ==
    /\ pc \in {"walk", "process"} /\ caller = "collect"
    /\ scriptStack # <<>>
    /\ procIdx <= Len(scriptStack)
    /\ LET at == IF procIdx = 0 THEN 1 ELSE procIdx
       IN /\ RunProcessScript(scriptStack[at].node, scriptStack[at].depth, pc)
          /\ procIdx' = at + 1

\* A faulty variant: the loop goes on after a failed script.
ProcessNextKeepGoing ==
    /\ pc \in {"process", "failed"}
    /\ procIdx >= 1 /\ procIdx <= Len(scriptStack)
    /\ RunProcessScript(scriptStack[procIdx].node, scriptStack[procIdx].depth, "process")
    /\ procIdx' = procIdx + 1

\* for (referent, depth) in script_stack { Self::process_script(script, depth)?; }
ProcessNext ==
    /\ pc = "process"
    /\ procIdx <= Len(scriptStack)
    /\ RunProcessScript(scriptStack[procIdx].node, scriptStack[procIdx].depth, "process")
    /\ procIdx' = procIdx + 1

\* Self::process_script(script, 0)? on the entry script, after the loop
ProcessEntry ==
    /\ pc = "process"
    /\ procIdx > Len(scriptStack)
    /\ RunProcessScript(sourceScript, 0, "transpiled")
    /\ procIdx' = procIdx

\* ------------------------------------------------------------- save_to_file
\* File::create may fail; the encoder may fail after the file was created.
SaveOutcomes == {"ok", "IOError", "EncodeError"}

SaveToFile ==
    /\ pc = "transpiled"
    /\ IF FromPath(outPath) = "InvalidExtension"
       THEN /\ problem' = "InvalidExtension"
            /\ pc' = "failed"
            /\ UNCHANGED <<outFile, io>>
       ELSE \E outcome \in SaveOutcomes :
            /\ io' = IF outcome = "IOError" THEN Append(io, "create")
                     ELSE io \o <<"create", "write">>
            /\ outFile' = IF outcome = "ok" THEN "written"
                          ELSE IF outcome = "EncodeError" THEN "partial" ELSE "absent"
            /\ problem' = IF outcome = "ok" THEN "none" ELSE outcome
            /\ pc' = IF outcome = "ok" THEN "done" ELSE "failed"
    /\ UNCHANGED <<treeVars, pathVars, srcVars, walkVars, input, sourceScript, excludeLibs, scriptStack,
                   totalCount, procIdx, processed, inFile, outPath>>

\* ----------------------------------------------------------- the inputs
\* Tokens as the tokenizer delivers them for conventionally spaced code.
Id(s) == NewIdentifier(<<s>>)
Str(s) == NewType("StringLiteral", <<s>>)
Spaced(t) == [t EXCEPT !.trail = <<" ">>]
EofToken == NewType("Eof", <<>>)

Parens(arguments) == ParenArgs(NewSymbol("("), arguments, NewSymbol(")"))
Method(m, args) == MethodCall(NewSymbol(":"), Id(m), args)
Dot(n) == DotSuffix(NewSymbol("."), Id(n))

SettingsCall == FunctionCallExpr(PrefixName(Id("settings")), <<AnonymousCall(Parens(<<>>))>>)

SuffixPool ==
    {Dot("StudioStyleGuideColor"), Dot("Parent"), AnonymousCall(Parens(<<>>)),
     Method("GetService", Parens(<<StringExpr(Str("Other"))>>)),
     Method("GetService", Parens(<<SettingsCall>>)),
     Method("Clone", Parens(<<StringExpr(Str("Plugin"))>>)),
     Method("FindFirstAncestorOfClass", Parens(<<StringExpr(Str("Plugin"))>>)),
     Method("FindFirstAncestorOfClass", Parens(<<StringExpr(Str("Other"))>>)),
     Method("FindFirstAncestorOfClass", Parens(<<>>)),
     Method("FindFirstAncestorOfClass", StringArgs(Str("Plugin"))),
     Method("FindFirstAncestorOfClass",
            ParenArgs(NewSymbol("("), <<StringExpr([Str("Plugin") EXCEPT !.trail = <<"\n">>])>>,
                      [NewSymbol(")") EXCEPT !.lead = <<"\t">>])),
     Method("FindFirstAncestorWhichIsA", Parens(<<StringExpr(Str("Plugin"))>>)),
     Method("FindFirstAncestorWhichIsA", Parens(<<StringExpr(Str("Plugin")), VarNameExpr(Id("x"))>>))}

PrefixPool == {"game", "settings", "Enum"}

RECURSIVE SeqsUpTo(_, _)
SeqsUpTo(S, n) ==
    IF n = 0 THEN {<<>>}
    ELSE LET shorter == SeqsUpTo(S, n - 1)
         IN shorter \cup {Append(q, x) : q \in {r \in shorter : Len(r) = n - 1}, x \in S}

Affixed(prefixName, suffixes) ==
    IF IsCall(suffixes[Len(suffixes)])
    THEN FunctionCallExpr(PrefixName(Id(prefixName)), suffixes)
    ELSE VarExpressionExpr(PrefixName(Id(prefixName)), suffixes)

ExprPool == {Affixed(p, q) : p \in PrefixPool, q \in SeqsUpTo(SuffixPool, MaxSuffixes) \ {<<>>}}

\* What follows the last token of a line: the line break, or a comment first.
TrailPool == {<<"\n">>, <<" ", "-- c", "\n">>}

LocalStmt(n, expr) == LocalAssignment(LocalToken, Spaced(Id(n)), Spaced(NewSymbol("=")), expr)
ReturnToken == Spaced(NewSymbol("return"))

\* One statement around one expression of ExprPool.
ExprSources ==
    {MkAst(<<LocalStmt("v", ExprAppendTrail(e, t))>>, NoLastStmt, EofToken) : e \in ExprPool, t \in TrailPool}
    \cup {MkAst(<<CallStmt(ExprAppendTrail(e, t))>>, NoLastStmt, EofToken) :
            e \in {x \in ExprPool : x.e = "FunctionCall"}, t \in TrailPool}
    \cup {MkAst(<<>>, ReturnStmt(ReturnToken, <<ExprAppendTrail(e, t)>>), EofToken) :
            e \in ExprPool, t \in TrailPool}

\* A text the parser rejects.
SyntaxErrorText == <<"local", " ", "=", "\n">>

InitSrcCommon ==
    /\ parent = [n \in {Root} |-> Root]
    /\ class = [n \in {Root} |-> "DataModel"]
    /\ source = [n \in {Root} |-> NoSource]
    /\ name = [n \in {Root} |-> NodeName(n)]
    /\ RunIdle
    /\ PathIdle
    /\ caller = "none"
    /\ queue = <<>>
    /\ cur = NoNode
    /\ path = DotPathDefault
    /\ idx = 0
    /\ depthBound = 0
    /\ breakAt = 0
    /\ walkStart = NoNode
    /\ visited = <<>>
    /\ pc = "parse"
    /\ srcParsed = NotParsed
    /\ srcAst = NoAst
    /\ srcRequires = RequiresDefault

\* Statements that set each requirement flag, and one that sets none.
StmtPool ==
    {LocalStmt("v", ExprAppendTrail(SettingsCall, <<"\n">>)),
     LocalStmt("v", ExprAppendTrail(Affixed("game", <<Method("FindFirstAncestorOfClass",
                                        Parens(<<StringExpr(Str("Plugin"))>>))>>), <<"\n">>)),
     LocalStmt("v", ExprAppendTrail(Affixed("Enum", <<Dot("StudioStyleGuideModifier"), Dot("Hover")>>),
                                    <<"\n">>)),
     CallStmt(ExprAppendTrail(Affixed("game", <<Method("Clone", Parens(<<>>))>>), <<"\n">>))}

\* Up to MaxStmts statements of StmtPool, with or without a closing return.
StmtSources ==
    {MkAst(q, l, EofToken) :
        q \in SeqsUpTo(StmtPool, MaxStmts),
        l \in {NoLastStmt, ReturnStmt(ReturnToken, <<VarNameExpr([Id("v") EXCEPT !.trail = <<"\n">>])>>)}}

\* Is the text one statement around one expression (a source of ExprSources)?
SingleExpression(ast) ==
    \/ Len(ast.stmts) = 1 /\ ast.last.l = "None" /\ ast.stmts[1].st = "LocalAssignment"
    \/ ast.stmts = <<>> /\ ast.last.l = "Return" /\ Len(ast.last.returns) = 1

\* That expression.
TheExpression(ast) == IF ast.stmts # <<>> THEN ast.stmts[1].expr ELSE ast.last.returns[1]

\* A free-standing transpile_source call on any text of the pools, at any depth.
InitSrc ==
    /\ InitSrcCommon
    /\ srcText \in {PrintAst(a) : a \in ExprSources \cup StmtSources} \cup {SyntaxErrorText}
    /\ srcDepth \in 0..MaxPathDepth

NextSrc == ParseSource \/ VisitSource \/ AssembleSource

SpecSrc == InitSrc /\ [][NextSrc]_vars

\* ------------------------------------------------------ the whole pipeline
NameA == <<"A">>
NameFusion == <<"F", "u", "s", "i", "o", "n">>

\* A module that looks the plugin up, and a script that matches no rule.
ModuleText ==
    PrintAst(MkAst(
        <<LocalStmt("v", ExprAppendTrail(Affixed("game", <<Method("FindFirstAncestorOfClass",
                                             Parens(<<StringExpr(Str("Plugin"))>>))>>), <<"\n">>))>>,
        ReturnStmt(ReturnToken, <<VarNameExpr([Id("v") EXCEPT !.trail = <<"\n">>])>>), EofToken))
ScriptText ==
    PrintAst(MkAst(<<CallStmt(ExprAppendTrail(Affixed("game", <<Method("Clone", Parens(<<>>))>>), <<"\n">>))>>,
                   NoLastStmt, EofToken))

Instance(c, src, n) == [class |-> c, source |-> src, name |-> n]

\* What a node of the document may be.
InstancePool ==
    {Instance("Folder", NoSource, NameA),
     Instance("ModuleScript", StringSource(ModuleText), NameA),
     Instance("ModuleScript", StringSource(ModuleText), NameFusion),
     Instance("ModuleScript", StringSource(SyntaxErrorText), NameA),
     Instance("ModuleScript", NoSource, NameA),
     Instance("Script", StringSource(ScriptText), NameA),
     Instance("Script", StringSource(SyntaxErrorText), NameA)}

\* DomTranspiler::new is called on any document of up to MaxDocNodes instances
\* below the WeakDom root.
Init ==
    /\ parent \in TreeShapes(MaxDocNodes)
    /\ \E inst \in [1..MaxDocNodes -> InstancePool] :
        /\ class = [n \in 0..MaxDocNodes |-> IF n = Root THEN "DataModel" ELSE inst[n].class]
        /\ source = [n \in 0..MaxDocNodes |-> IF n = Root THEN NoSource ELSE inst[n].source]
        /\ name = [n \in 0..MaxDocNodes |-> IF n = Root THEN <<"R", "O", "O", "T">> ELSE inst[n].name]
    /\ RunIdle
    /\ PathIdle
    /\ SrcIdle
    /\ pc = "walk"
    /\ caller = "new"
    /\ walkStart = Root
    /\ queue = <<[node |-> Root, path |-> DotPathDefault]>>
    /\ cur = NoNode
    /\ path = DotPathDefault
    /\ idx = 0
    /\ depthBound = NewSearchDepth
    /\ breakAt = 0
    /\ visited = <<>>

Next ==
    \/ WalkPop
    \/ NewVisit
    \/ NewReturn
    \/ ExcludeLibs
    \/ TranspileTree
    \/ CollectVisit
    \/ CollectReturn
    \/ ProcessNext
    \/ ProcessEntry
    \/ SaveToFile

Spec == Init /\ [][Next]_vars

\* ------------------------------------------------ claims on transpile_tree
\* The ModuleScript descendants of the entry script that is_excluded lets
\* through, each with the names on its path from the entry script.
ExpectedScripts ==
    {n \in Descendants(sourceScript) :
        /\ input.class[n] = "ModuleScript"
        /\ ~IsExcluded(PathString(NamesFrom(sourceScript, n)))}

StackNodes == {scriptStack[i].node : i \in 1..Len(scriptStack)}
Untouched(n) == class[n] = input.class[n] /\ source[n] = input.source[n]

\* C1: while DomTranspiler::new, exclude_libs and the collection walk of
\* transpile_tree are under way no node's class or Source differs from the
\* loaded document and process_script has not been called; once the first
\* process_script call is due or done, script_stack holds exactly the
\* non-excluded ModuleScript descendants of the entry script, one entry each.
C1_CollectBeforeMutate ==
    /\ pc \in {"walk", "built", "configured"} =>
        /\ processed = <<>>
        /\ \A n \in Nodes : Untouched(n)
    /\ (pc = "process" \/ processed # <<>>) =>
        /\ StackNodes = ExpectedScripts
        /\ Len(scriptStack) = Cardinality(ExpectedScripts)

\* The collection walk is under way with a script on script_stack and more
\* children to visit: the collected script is still as it was loaded.
C1_Witness ==
    /\ pc = "walk" /\ caller = "collect"
    /\ scriptStack # <<>>
    /\ HasChild
    /\ input.source[scriptStack[1].node].kind = "string"

\* What process_script leaves in a script that was loaded with text src.
ModuleResult(src, depth) == StringSource(PrintAst(TranspileSource(src.text, depth).ast))
EntryResult(src) == StringSource(WrapMainSource(TranspileSource(src.text, 0).ast))
CallsOn(n) == {i \in 1..Len(processed) : processed[i].node = n}

\* C2: when transpile_tree has returned Ok, process_script was called once for
\* every non-excluded ModuleScript descendant of the entry script, with the
\* node's distance from the entry script as depth, then once for the entry
\* script with depth 0 as the last call, and for nothing else; each of these
\* nodes holds the result of that one call and every other node is as loaded.
C2_EachScriptOnce ==
    /\ sourceScript # NoNode =>
        \A n \in Nodes \ (ExpectedScripts \cup {sourceScript}) : Untouched(n) /\ CallsOn(n) = {}
    /\ pc \in {"transpiled", "done"} =>
        /\ Len(processed) = Cardinality(ExpectedScripts) + 1
        /\ \A n \in ExpectedScripts :
            /\ Cardinality(CallsOn(n)) = 1
            /\ \A i \in CallsOn(n) :
                /\ i < Len(processed)
                /\ processed[i].depth = DistanceFrom(sourceScript, n)
            /\ class[n] = input.class[n]
            /\ source[n] = ModuleResult(input.source[n], DistanceFrom(sourceScript, n))
        /\ processed[Len(processed)] = [node |-> sourceScript, depth |-> 0, ok |-> TRUE]
        /\ class[sourceScript] = "ModuleScript"
        /\ source[sourceScript] = EntryResult(input.source[sourceScript])

\* transpile_tree returned Ok on a tree with a module two levels below the
\* entry script and a node that is no ModuleScript.
C2_Witness ==
    /\ pc = "transpiled"
    /\ \E i \in 1..Len(processed) : processed[i].depth = 2
    /\ source # input.source

\* C3: a process_script call that returned an error is the last call:
\* transpile_tree is left with that Problem, the scripts after it on
\* script_stack and the entry script are as they were loaded, and no output
\* file exists.
C3_ErrorStopsRun ==
    /\ \A i \in 1..(Len(processed) - 1) : processed[i].ok
    /\ (processed # <<>> /\ ~processed[Len(processed)].ok) =>
        /\ pc = "failed"
        /\ problem \in {"TranspilerError", "NoScriptSource"}
        /\ outFile = "absent"
        /\ \A j \in (Len(processed) + 1)..Len(scriptStack) : Untouched(scriptStack[j].node)
        /\ Len(processed) <= Len(scriptStack) => Untouched(sourceScript)

\* A script failed while another script of script_stack was still to come.
C3_Witness ==
    /\ pc = "failed"
    /\ processed # <<>>
    /\ ~processed[Len(processed)].ok
    /\ Len(processed) < Len(scriptStack)

\* A free-standing foreach_descendant over any tree, from any node, with any
\* depth bound and a visitor that stops at any visit or never.
InitWalk ==
    /\ parent \in TreeShapes(MaxNodes)
    /\ class = [n \in 0..MaxNodes |-> "Folder"]
    /\ source = [n \in 0..MaxNodes |-> NoSource]
    /\ name = [n \in 0..MaxNodes |-> NodeName(n)]
    /\ RunIdle
    /\ PathIdle
    /\ pc = "walk"
    /\ caller = "generic"
    /\ walkStart \in 0..MaxNodes
    /\ queue = <<[node |-> walkStart, path |-> DotPathDefault]>>
    /\ cur = NoNode
    /\ path = DotPathDefault
    /\ idx = 0
    /\ depthBound \in 0..MaxDepthBound
    /\ breakAt \in 0..MaxNodes
    /\ visited = <<>>
    /\ SrcIdle

NextWalk == WalkPop \/ GenericVisit \/ GenericReturn

SpecWalk == InitWalk /\ [][NextWalk]_vars

\* ---------------------------------------------------- claims on the walker
VisitedNodes == {visited[i].node : i \in 1..Len(visited)}

\* C4: with a visitor that always answers Continue, a walk with bound d > 0
\* visits only descendants of the start node at distance 1..d, a walk with
\* bound 0 has visited every descendant once it returns, no node is visited
\* twice, and the start node is never visited.
C4_DepthBoundAndOnce ==
    breakAt = 0 =>
        /\ \A i \in 1..Len(visited) :
              /\ visited[i].node \in Descendants(walkStart)
              /\ visited[i].node # walkStart
              /\ depthBound > 0 => DistanceFrom(walkStart, visited[i].node) \in 1..depthBound
        /\ \A i, j \in 1..Len(visited) : visited[i].node = visited[j].node => i = j
        /\ (pc = "returned" /\ depthBound = 0) => VisitedNodes = Descendants(walkStart)

\* A bounded walk has returned having visited several nodes and left a deeper
\* descendant unvisited.
C4_Witness ==
    /\ pc = "returned" /\ breakAt = 0 /\ depthBound = 2
    /\ Len(visited) >= 2
    /\ \E n \in Descendants(walkStart) : DistanceFrom(walkStart, n) = 3 /\ n \notin VisitedNodes

\* C5: when the visitor answers Break at its K-th invocation, it is never
\* invoked a (K+1)-th time.
C5_BreakStopsWalk == breakAt # 0 => Len(visited) <= breakAt

\* The walk was stopped at the K-th visit with a later sibling of the visited
\* node unvisited and a node whose children were still to be walked.
C5_Witness ==
    /\ pc = "returned" /\ breakAt # 0 /\ Len(visited) = breakAt
    /\ depthBound = 0
    /\ \E s \in Descendants(walkStart) :
          /\ parent[s] = parent[visited[breakAt].node]
          /\ s > visited[breakAt].node
          /\ s \notin VisitedNodes
    /\ \E i \in 1..(breakAt - 1) : Children(visited[i].node) # <<>>

\* ------------------------------------------- claims on transpile_source
\* The name a local declaration declares; empty for any other statement.
DeclaredName(stmt) == IF stmt.st = "LocalAssignment" THEN stmt.name.text ELSE <<>>
Declares(ast, n) == \E i \in 1..Len(ast.stmts) : DeclaredName(ast.stmts[i]) = <<n>>
Lexemes(text) == {text[i] : i \in 1..Len(text)}

\* C6: transpile_source emits the globals-require declaration iff a flag is
\* set and depth > 0, the plugin-handle declaration iff the plugin flag is
\* set or depth = 0, the enum-table declaration iff the enums flag is set.
C6_DeclarationsEmitted ==
    pc = "done" =>
        /\ Declares(srcAst, GLOBAL_VAR_NAME) <=>
              ((srcRequires.globals \/ srcRequires.plugin \/ srcRequires.enums) /\ srcDepth > 0)
        /\ Declares(srcAst, "plugin") <=> (srcRequires.plugin \/ srcDepth = 0)
        /\ Declares(srcAst, "Enums") <=> srcRequires.enums

\* Below the entry point, only the enums flag is set: the globals-require is
\* emitted for it, the plugin handle is not.
C6_Witness ==
    /\ pc = "done" /\ srcDepth > 0
    /\ srcRequires = [globals |-> FALSE, plugin |-> FALSE, enums |-> TRUE]
    /\ Declares(srcAst, GLOBAL_VAR_NAME) /\ ~Declares(srcAst, "plugin")

DeclarationRank(n) ==
    IF n = <<GLOBAL_VAR_NAME>> THEN 1 ELSE IF n = <<"plugin">> THEN 2 ELSE IF n = <<"Enums">> THEN 3 ELSE 0

\* C7: the assembly step puts the declarations first, in the order
\* globals-require, plugin-handle, enum-table, then the rewritten statements
\* in their order and the last statement; the marker comment is on the last
\* declaration and on no other; with no declaration nothing changes.
C7_InjectionOrder ==
    [][(pc = "assemble" /\ pc' = "done") =>
        LET out == srcAst'
            k == Len(out.stmts) - Len(srcAst.stmts)
        IN /\ k \in 0..3
           /\ SubSeq(out.stmts, k + 1, Len(out.stmts)) = srcAst.stmts
           /\ out.last = srcAst.last
           /\ \A i \in 1..k : DeclarationRank(DeclaredName(out.stmts[i])) > 0
           /\ \A i, j \in 1..k :
                 i < j => DeclarationRank(DeclaredName(out.stmts[i]))
                            < DeclarationRank(DeclaredName(out.stmts[j]))
           /\ \A i \in 1..k : (Marker \in Lexemes(PrintStmt(out.stmts[i]))) <=> (i = k)
           /\ (k = 0 => out = srcAst)]_vars

\* All three declarations were emitted in front of two statements.
C7_Witness ==
    /\ pc = "done" /\ srcDepth > 0
    /\ Len(srcAst.stmts) >= 5
    /\ DeclaredName(srcAst.stmts[1]) = <<GLOBAL_VAR_NAME>>
    /\ DeclaredName(srcAst.stmts[2]) = <<"plugin">>
    /\ DeclaredName(srcAst.stmts[3]) = <<"Enums">>

\* The shapes of the rewrite table, read off an expression node.
IsMethodNamed(suffix, names) == suffix.s = "MethodCall" /\ suffix.name.text \in names
FirstArgIsPluginLiteral(suffix) ==
    \/ /\ suffix.args.a = "Parentheses"
       /\ suffix.args.arguments # <<>>
       /\ suffix.args.arguments[1].e = "String"
       /\ suffix.args.arguments[1].token.text = <<"Plugin">>
    \/ suffix.args.a = "String" /\ suffix.args.token.text = <<"Plugin">>
IsPluginLookup(suffix) ==
    /\ IsMethodNamed(suffix, {<<"FindFirstAncestorOfClass">>, <<"FindFirstAncestorWhichIsA">>})
    /\ FirstArgIsPluginLiteral(suffix)
IsGetService(suffix) == IsMethodNamed(suffix, {<<"GetService">>})

MatchesEnumRule(e) ==
    /\ HasAffixes(e) /\ e.prefix.p = "Name" /\ e.prefix.token.text = <<"Enum">>
    /\ e.suffixes # <<>> /\ e.suffixes[1].s = "Dot"
    /\ e.suffixes[1].name.text \in {<<"StudioStyleGuideColor">>, <<"StudioStyleGuideModifier">>}
MatchesSettingsRule(e) ==
    /\ HasAffixes(e) /\ e.prefix.p = "Name" /\ e.prefix.token.text = <<"settings">>
    /\ e.suffixes # <<>> /\ e.suffixes[1].s \in {"AnonymousCall", "MethodCall"}
MatchesPluginRule(e) ==
    e.e = "FunctionCall" /\ \E i \in 1..Len(e.suffixes) : IsPluginLookup(e.suffixes[i])
MatchesGetServiceRule(e) ==
    e.e = "FunctionCall" /\ \E i \in 1..Len(e.suffixes) : IsGetService(e.suffixes[i])

\* The first rule, in the order of the table, whose shape the node has.
FirstTableRule(e) ==
    IF MatchesEnumRule(e) THEN "enum"
    ELSE IF MatchesSettingsRule(e) THEN "settings"
    ELSE IF MatchesPluginRule(e) THEN "plugin"
    ELSE IF MatchesGetServiceRule(e) THEN "GetService"
    ELSE "none"

IsGlobalsGetService(o) ==
    /\ o.e = "FunctionCall" /\ o.prefix.p = "Name" /\ o.prefix.token.text = <<GLOBAL_VAR_NAME>>
    /\ Len(o.suffixes) = 2
    /\ o.suffixes[1].s = "Dot" /\ o.suffixes[1].name.text = <<"game">>
    /\ IsGetService(o.suffixes[2])

\* The rule whose rewrite turned node e into node o.
AppliedRule(e, o) ==
    IF o.e = "Symbol" /\ o.token.text = <<"plugin">> THEN "plugin"
    ELSE IF IsGlobalsGetService(o) THEN "GetService"
    ELSE IF HasAffixes(o) /\ o.prefix.p = "Name" /\ o.prefix.token.text = <<"Enums">> THEN "enum"
    ELSE IF HasAffixes(o) /\ o.prefix.p = "Name" /\ o.prefix.token.text = IndexGlobal("settings")
    THEN "settings"
    ELSE IF o = e THEN "none"
    ELSE "other"

\* The visitor has run over a text of one expression: e is the expression
\* as parsed, o what the visitor made of it.
VisitedSingle == pc = "assemble" /\ SingleExpression(srcParsed.node)
InExpr == TheExpression(srcParsed.node)
OutExpr == TheExpression(srcAst)

\* The receiver of a GetService call is the ambient service root itself.
OnAmbientRoot(e) ==
    /\ e.prefix.p = "Name" /\ e.prefix.token.text = <<"game">>
    /\ IsGetService(e.suffixes[1])

\* C8: a GetService method call is rewritten to _proxyGlobals.game:GetService
\* with the same arguments, setting the globals flag, iff it is invoked on the
\* ambient service root; with any other receiver it passes through unchanged
\* and sets no flag. (Stated for call expressions no other rule matches.)
C8_OnlyAmbientGetService ==
    (VisitedSingle /\ FirstTableRule(InExpr) = "GetService") =>
        IF OnAmbientRoot(InExpr)
        THEN /\ IsGlobalsGetService(OutExpr)
             /\ OutExpr.suffixes[2].name = InExpr.suffixes[1].name
             /\ srcRequires.globals
        ELSE /\ OutExpr = InExpr
             /\ srcRequires = RequiresDefault

AtMostOneRuleMatches(e) ==
    Cardinality({r \in {"enum", "settings", "plugin", "GetService"} :
                    \/ r = "enum" /\ MatchesEnumRule(e)
                    \/ r = "settings" /\ MatchesSettingsRule(e)
                    \/ r = "plugin" /\ MatchesPluginRule(e)
                    \/ r = "GetService" /\ MatchesGetServiceRule(e)}) <= 1

\* C9: at most one rule of the table matches an expression node, and the
\* rule applied to it is the first matching one in the order enumeration
\* access, settings call, ancestor-plugin lookup, GetService.
C9_FirstTableRuleApplies ==
    VisitedSingle =>
        /\ AtMostOneRuleMatches(InExpr)
        /\ AppliedRule(InExpr, OutExpr) = FirstTableRule(InExpr)

\* The closing token of a call expression: that of its last suffix.
LastClosingToken(e) ==
    LET args == e.suffixes[Len(e.suffixes)].args
    IN IF args.a = "String" THEN args.token ELSE args.close

\* C10: a call expression with a FindFirstAncestorOfClass / WhichIsA method
\* call whose first argument is the literal "Plugin" becomes the identifier
\* plugin, which carries the trailing trivia of the closing token of the
\* call expression, and sets the plugin flag; without such a method call the
\* plugin flag stays clear and the node is not turned into plugin. (Stated
\* for call expressions that hold no GetService method call.)
C10_PluginLookupKeepsTrivia ==
    (VisitedSingle /\ InExpr.e = "FunctionCall" /\ ~MatchesGetServiceRule(InExpr)) =>
        IF MatchesPluginRule(InExpr)
        THEN /\ OutExpr.e = "Symbol"
             /\ OutExpr.token.kind = "Identifier"
             /\ OutExpr.token.text = <<"plugin">>
             /\ OutExpr.token.trail = LastClosingToken(InExpr).trail
             /\ srcRequires.plugin
        ELSE /\ AppliedRule(InExpr, OutExpr) # "plugin"
             /\ ~srcRequires.plugin

\* ------------------------------------------- the collection phase on its own
NameFusions == <<"F", "u", "s", "i", "o", "n", "s">>
NameRoactX == <<"R", "o", "a", "c", "t", "X">>
NameJsdotlua == <<"x", "j", "s", "d", "o", "t", "l", "u", "a", "y">>

\* Folders and modules under library-like and ordinary names.
NamedPool ==
    {Instance("Folder", NoSource, NameA),
     Instance("Folder", NoSource, NameJsdotlua),
     Instance("ModuleScript", StringSource(ScriptText), NameA),
     Instance("ModuleScript", StringSource(ScriptText), NameFusion),
     Instance("ModuleScript", StringSource(ScriptText), NameFusions),
     Instance("ModuleScript", StringSource(ScriptText), NameRoactX)}

InitCollect ==
    /\ parent \in TreeShapes(MaxDocNodes)
    /\ \E inst \in [1..MaxDocNodes -> NamedPool] :
        /\ class = [n \in 0..MaxDocNodes |-> IF n = Root THEN "DataModel" ELSE inst[n].class]
        /\ source = [n \in 0..MaxDocNodes |-> IF n = Root THEN NoSource ELSE inst[n].source]
        /\ name = [n \in 0..MaxDocNodes |-> IF n = Root THEN <<"R", "O", "O", "T">> ELSE inst[n].name]
    /\ RunIdle
    /\ PathIdle
    /\ SrcIdle
    /\ pc = "walk"
    /\ caller = "new"
    /\ walkStart = Root
    /\ queue = <<[node |-> Root, path |-> DotPathDefault]>>
    /\ cur = NoNode
    /\ path = DotPathDefault
    /\ idx = 0
    /\ depthBound = NewSearchDepth
    /\ breakAt = 0
    /\ visited = <<>>

\* DomTranspiler::new, exclude_libs, and transpile_tree up to the end of its
\* foreach_descendant call.
NextCollect ==
    \/ WalkPop
    \/ NewVisit
    \/ NewReturn
    \/ ExcludeLibs
    \/ TranspileTree
    \/ CollectVisit
    \/ CollectReturn

SpecCollect == InitCollect /\ [][NextCollect]_vars

\* The three kinds of library component, read off a name.
NamedFusion(c) == c = <<"F", "u", "s", "i", "o", "n">>
ContainsJsdotlua(c) ==
    \E i \in 1..Len(c) :
        i + 7 <= Len(c) /\ SubSeq(c, i, i + 7) = <<"j", "s", "d", "o", "t", "l", "u", "a">>
StartsWithReact(c) ==
    /\ Len(c) >= 5
    /\ c[1] \in {"R", "r"}
    /\ c[2] \in {"e", "o"}
    /\ SubSeq(c, 3, 5) = <<"a", "c", "t">>
LibraryComponent(c) == NamedFusion(c) \/ ContainsJsdotlua(c) \/ StartsWithReact(c)

ModuleDescendants == {n \in Descendants(sourceScript) : class[n] = "ModuleScript"}
UnderLibrary(n) ==
    \E i \in 1..DistanceFrom(sourceScript, n) :
        LibraryComponent(NamesFrom(sourceScript, n)[i])
Skipped == IF totalCount >= Len(scriptStack)
           THEN totalCount - Len(scriptStack)
           ELSE Len(scriptStack) - totalCount

\* C11: when the collection walk of transpile_tree has returned, total_count
\* is the number of ModuleScript descendants of the entry script, excluded or
\* not; a ModuleScript descendant is missing from script_stack exactly when
\* exclusion is enabled and a component of its path below the entry script is
\* named Fusion, contains jsdotlua or starts with React/Roact (the module's
\* own name or an ancestor's); with exclusion disabled every ModuleScript
\* descendant is on script_stack and the skipped count is 0.
C11_ExclusionAndCount ==
    (pc = "process") =>
        /\ totalCount = Cardinality(ModuleDescendants)
        /\ StackNodes \subseteq ModuleDescendants
        /\ \A n \in ModuleDescendants :
            (n \notin StackNodes) <=> (excludeLibs /\ UnderLibrary(n))
        /\ ~excludeLibs => (StackNodes = ModuleDescendants /\ Skipped = 0)

\* Exclusion is enabled; a module of an ordinary name under a jsdotlua folder
\* was counted and left out for its ancestor's name.
C11_Witness ==
    /\ pc = "process"
    /\ excludeLibs
    /\ totalCount = 1
    /\ Len(scriptStack) = 0
    /\ \E n \in ModuleDescendants :
        /\ n \notin StackNodes
        /\ ~LibraryComponent(name[n])
        /\ ContainsJsdotlua(name[parent[n]])

\* ----------------------------------------------------- the wrapped entry script
WrapperHead ==
    <<"return", " ", "{", " ", "init", " ", "=", " ", "function", "(", "_proxyGlobals", ")", "\n">>
WrapperTail == <<"\n", "end", " ", "}">>
IsWrapped(text) ==
    /\ Len(text) >= Len(WrapperHead) + Len(WrapperTail)
    /\ SubSeq(text, 1, Len(WrapperHead)) = WrapperHead
    /\ SubSeq(text, Len(text) - Len(WrapperTail) + 1, Len(text)) = WrapperTail
InitBody(text) == SubSeq(text, Len(WrapperHead) + 1, Len(text) - Len(WrapperTail))

\* Every line that is not empty begins with one tab.
Indented(text) ==
    \A i \in 1..Len(text) :
        ((i = 1 \/ text[i - 1] = "\n") /\ text[i] # "\n") => text[i] = "\t"

\* The text with the first tab of each line removed.
RECURSIVE StripIndent(_, _)
StripIndent(text, lineStart) ==
    IF text = <<>> THEN <<>>
    ELSE IF lineStart /\ Head(text) = "\t" THEN StripIndent(Tail(text), FALSE)
    ELSE <<Head(text)>> \o StripIndent(Tail(text), Head(text) = "\n")

WithoutFinalBreak(text) ==
    IF text # <<>> /\ text[Len(text)] = "\n" THEN SubSeq(text, 1, Len(text) - 1) ELSE text

\* What depth 0 always puts in front: the plugin handle and the marker comment.
EntryPrelude ==
    <<"local", " ", "plugin", " ", "=", " ", "_proxyGlobals", ".", "plugin", "\n",
      "-- Autogenerated with PluginProxy Transpiler", "\n", "\n">>

\* transpile_tree has succeeded on an entry point that was loaded as a Script
\* holding the one statement game:Clone(), which matches no rewrite rule.
PlainEntryTranspiled ==
    /\ processed # <<>>
    /\ processed[Len(processed)].depth = 0
    /\ processed[Len(processed)].ok
    /\ input.class[sourceScript] = "Script"
    /\ input.source[sourceScript] = StringSource(ScriptText)

\* C12 as stated: the entry point has class ModuleScript and a Source that is
\* the init wrapper whose body, one indent level removed from each line, is
\* exactly the original statement (with or without its final line break).
C12_InitBodyIsStatement ==
    PlainEntryTranspiled =>
        /\ class[sourceScript] = "ModuleScript"
        /\ source[sourceScript].kind = "string"
        /\ IsWrapped(source[sourceScript].text)
        /\ Indented(InitBody(source[sourceScript].text))
        /\ StripIndent(InitBody(source[sourceScript].text), TRUE)
            \in {ScriptText, WithoutFinalBreak(ScriptText)}

\* C12 amended: the entry point has class ModuleScript and a Source that is
\* the init wrapper whose body, one indent level removed from each line, is
\* the declaration local plugin = _proxyGlobals.plugin, the marker comment and
\* an empty line, followed by the original statement without its final line
\* break.
C12_InitBodyIsPreludeAndStatement ==
    PlainEntryTranspiled =>
        /\ class[sourceScript] = "ModuleScript"
        /\ source[sourceScript].kind = "string"
        /\ IsWrapped(source[sourceScript].text)
        /\ Indented(InitBody(source[sourceScript].text))
        /\ StripIndent(InitBody(source[sourceScript].text), TRUE)
            = EntryPrelude \o WithoutFinalBreak(ScriptText)

\* The plain Script entry point has been wrapped and the run went on to save.
C12_Witness ==
    /\ PlainEntryTranspiled
    /\ pc = "done"
    /\ IsWrapped(source[sourceScript].text)

\* ------------------------------------------- DomTranspiler::new on its own
NewClasses == {"Folder", "ModuleScript", "Script", "LocalScript"}

InitNew ==
    /\ parent \in TreeShapes(MaxNodes)
    /\ \E cls \in [1..MaxNodes -> NewClasses] :
        class = [n \in 0..MaxNodes |-> IF n = Root THEN "DataModel" ELSE cls[n]]
    /\ source = [n \in 0..MaxNodes |-> NoSource]
    /\ name = [n \in 0..MaxNodes |-> IF n = Root THEN <<"R", "O", "O", "T">> ELSE NodeName(n)]
    /\ RunIdle
    /\ PathIdle
    /\ SrcIdle
    /\ pc = "walk"
    /\ caller = "new"
    /\ walkStart = Root
    /\ queue = <<[node |-> Root, path |-> DotPathDefault]>>
    /\ cur = NoNode
    /\ path = DotPathDefault
    /\ idx = 0
    /\ depthBound = NewSearchDepth
    /\ breakAt = 0
    /\ visited = <<>>

NextNew ==
    \/ WalkPop
    \/ NewVisit
    \/ NewReturn

SpecNew == InitNew /\ [][NextNew]_vars

\* The nodes DomTranspiler::new may choose: script classes one or two levels
\* below the root.
Eligible ==
    {n \in Nodes \ {Root} :
        /\ DistanceFrom(Root, n) \in {1, 2}
        /\ class[n] \in {"ModuleScript", "Script", "LocalScript"}}

\* The order in which the walk from the root visits the nodes of the first two
\* levels: the root's children in order, then the children of the root's
\* children, those of the child pushed last first.
VisitedBefore(a, b) ==
    \/ DistanceFrom(Root, a) < DistanceFrom(Root, b)
    \/ /\ DistanceFrom(Root, a) = 1 /\ DistanceFrom(Root, b) = 1
       /\ a < b
    \/ /\ DistanceFrom(Root, a) = 2 /\ DistanceFrom(Root, b) = 2
       /\ \/ parent[a] > parent[b]
          \/ parent[a] = parent[b] /\ a < b

\* C13: DomTranspiler::new succeeds exactly when some node one or two levels
\* below the root has class ModuleScript, Script or LocalScript; the entry
\* point is then the first such node in the walk's order of visits, it is the
\* last node the walk visits, and the walk is over; otherwise, also when
\* script classes exist only deeper down, new fails with NoMainSource.
C13_NewFindsFirstScript ==
    (pc \in {"built", "failed"}) =>
        /\ (pc = "built") <=> (Eligible # {})
        /\ (pc = "built") =>
            /\ sourceScript \in Eligible
            /\ \A m \in Eligible \ {sourceScript} : VisitedBefore(sourceScript, m)
            /\ visited[Len(visited)].node = sourceScript
            /\ \A i \in 1..(Len(visited) - 1) : visited[i].node \notin Eligible
            /\ queue = <<>> /\ cur = NoNode
        /\ (pc = "failed") =>
            /\ problem = "NoMainSource"
            /\ sourceScript = NoNode

\* new has chosen a node two levels down although another script of that
\* level, under an earlier child of the root, has a smaller index.
C13_Witness ==
    /\ pc = "built"
    /\ DistanceFrom(Root, sourceScript) = 2
    /\ \E m \in Eligible : m < sourceScript /\ parent[m] < parent[sourceScript]

\* ------------------------------------------------ from_file to save_to_file
\* How from_file ends for the file f = [ext, state]: File::open comes first,
\* RbxFileType::from_path second, the decoder third.
FromFileOutcome(f) ==
    IF f.state = "missing" THEN "IOError"
    ELSE IF FromPath(f.ext) = "InvalidExtension" THEN "InvalidExtension"
    ELSE IF f.state = "corrupt" THEN "DecodeError"
    ELSE "ok"

\* pluginproxy_transpiler::from_file, up to its call of DomTranspiler::new
FromFile ==
    /\ pc = "from_file"
    /\ \E outcome \in {FromFileOutcome(inFile)} :
        /\ io' = IF outcome \in {"IOError", "InvalidExtension"}
                 THEN Append(io, "open")
                 ELSE io \o <<"open", "read">>
        /\ problem' = IF outcome = "ok" THEN problem ELSE outcome
        /\ IF outcome = "ok"
           THEN /\ WalkInit(Root, NewSearchDepth, "new")
                /\ pc' = "walk"
           ELSE /\ pc' = "failed"
                /\ UNCHANGED <<queue, cur, path, idx, depthBound, walkStart, caller, visited>>
    /\ UNCHANGED <<treeVars, pathVars, srcVars, breakAt, input, sourceScript, excludeLibs, scriptStack,
                   totalCount, procIdx, processed, outFile, inFile, outPath>>

\* Extensions a path may carry: the four accepted ones, a foreign one, an
\* accepted one in capitals, and none.
ExtensionPool == {"rbxm", "rbxl", "rbxmx", "rbxlx", "txt", "RBXM", ""}
FileStates == {"missing", "corrupt", "good"}

\* What a node of the stored document may be.
StoredPool ==
    {Instance("Folder", NoSource, NameA),
     Instance("ModuleScript", StringSource(ModuleText), NameA)}

\* A library caller is about to run
\* from_file(in)?.exclude_libs(b).transpile_tree()?.save_to_file(out)
\* on paths that nothing has validated.
InitFile ==
    /\ parent \in TreeShapes(MaxDocNodes)
    /\ \E inst \in [1..MaxDocNodes -> StoredPool] :
        /\ class = [n \in 0..MaxDocNodes |-> IF n = Root THEN "DataModel" ELSE inst[n].class]
        /\ source = [n \in 0..MaxDocNodes |-> IF n = Root THEN NoSource ELSE inst[n].source]
        /\ name = [n \in 0..MaxDocNodes |-> IF n = Root THEN <<"R", "O", "O", "T">> ELSE inst[n].name]
    /\ TranspilerIdle
    /\ PathIdle
    /\ SrcIdle
    /\ inFile \in [ext : ExtensionPool, state : FileStates]
    /\ outPath \in ExtensionPool
    /\ io = <<>>
    /\ pc = "from_file"
    /\ caller = "none"
    /\ walkStart = Root
    /\ queue = <<>>
    /\ cur = NoNode
    /\ path = DotPathDefault
    /\ idx = 0
    /\ depthBound = 0
    /\ breakAt = 0
    /\ visited = <<>>

NextFile ==
    \/ FromFile
    \/ Next

SpecFile == InitFile /\ [][NextFile]_vars

\* from_file has returned; save_to_file has returned.
FromFileReturned == pc # "from_file"
SaveToFileReturned ==
    /\ pc \in {"done", "failed"}
    /\ processed # <<>>
    /\ processed[Len(processed)].depth = 0
    /\ processed[Len(processed)].ok

\* save_to_file rejects a path of a foreign extension before it touches the
\* file system.
SaveToFileRejectsFirst ==
    (SaveToFileReturned /\ FromPath(outPath) = "InvalidExtension") =>
        /\ problem = "InvalidExtension"
        /\ pc = "failed"
        /\ outFile = "absent"
        /\ \A i \in 1..Len(io) : io[i] \notin {"create", "write"}

\* C14: for a path whose extension is none of rbxm, rbxl, rbxmx, rbxlx,
\* from_file fails with InvalidExtension without having opened or read a
\* file, and save_to_file fails with InvalidExtension without having created
\* one.
C14_ExtensionRejectedFirst ==
    /\ (FromFileReturned /\ FromPath(inFile.ext) = "InvalidExtension") =>
        /\ pc = "failed"
        /\ problem = "InvalidExtension"
        /\ io = <<>>
    /\ SaveToFileRejectsFirst

\* ------------------------------------------------------ a DotPath on its own
ComponentPool == {<<"A">>, <<"B">>}

\* DotPath::new_ancestor_path(n) has just returned.
InitPath ==
    /\ parent = [n \in {Root} |-> Root]
    /\ class = [n \in {Root} |-> "DataModel"]
    /\ source = [n \in {Root} |-> NoSource]
    /\ name = [n \in {Root} |-> NodeName(n)]
    /\ RunIdle
    /\ SrcIdle
    /\ caller = "none"
    /\ queue = <<>>
    /\ cur = NoNode
    /\ path = DotPathDefault
    /\ idx = 0
    /\ depthBound = 0
    /\ breakAt = 0
    /\ walkStart = NoNode
    /\ visited = <<>>
    /\ pc = "path"
    /\ \E n \in 0..MaxAncestors :
        /\ dotPath = NewAncestorPath(n)
        /\ pathOps = <<[op |-> "new", arg |-> n, depth |-> PathDepth(NewAncestorPath(n))]>>

\* path.push(component)
DotPathPush ==
    /\ pc = "path"
    /\ Len(pathOps) <= MaxPathOps
    /\ \E c \in ComponentPool :
        /\ dotPath' = PathPush(dotPath, c)
        /\ pathOps' = Append(pathOps, [op |-> "push", arg |-> 0,
                                       depth |-> PathDepth(PathPush(dotPath, c))])
    /\ UNCHANGED <<treeVars, pc, walkVars, srcVars, runVars>>

\* path.pop()
DotPathPop ==
    /\ pc = "path"
    /\ Len(pathOps) <= MaxPathOps
    /\ dotPath' = PathPop(dotPath)
    /\ pathOps' = Append(pathOps, [op |-> "pop", arg |-> 0, depth |-> PathDepth(PathPop(dotPath))])
    /\ UNCHANGED <<treeVars, pc, walkVars, srcVars, runVars>>

NextPath ==
    \/ DotPathPush
    \/ DotPathPop

SpecPath == InitPath /\ [][NextPath]_vars

\* n times .Parent, lexeme by lexeme
DotParents(n) == [i \in 1..(2 * n) |-> IF i % 2 = 1 THEN "." ELSE "Parent"]

\* Calls i+1 .. i+k are pushes and calls i+k+1 .. i+2k are pops.
PushesThenPops(i, k) ==
    /\ i + 2 * k <= Len(pathOps)
    /\ \A j \in (i + 1)..(i + k) : pathOps[j].op = "push"
    /\ \A j \in (i + k + 1)..(i + 2 * k) : pathOps[j].op = "pop"

\* C15: new_ancestor_path(n) has depth n and, untouched, renders as script
\* followed by n times .Parent; after any pushes and pops depth() is the
\* number of components; k pushes followed by k pops leave depth() as it was
\* before them.
C15_AncestorPathAndDepth ==
    (pc = "path") =>
        /\ pathOps[1].depth = pathOps[1].arg
        /\ Len(pathOps) = 1 =>
            PathToString(dotPath) = <<"script">> \o DotParents(pathOps[1].arg)
        /\ pathOps[Len(pathOps)].depth = Len(dotPath)
        /\ \A i \in 1..Len(pathOps) : \A k \in 1..Len(pathOps) :
            PushesThenPops(i, k) => pathOps[i + 2 * k].depth = pathOps[i].depth

\* script.Parent.Parent was pushed on twice and popped twice.
C15_Witness ==
    /\ pc = "path"
    /\ pathOps[1].arg = 2
    /\ PathToString(dotPath) = <<"script", ".", "Parent", ".", "Parent">>
    /\ Len(pathOps) = 5
    /\ PushesThenPops(1, 2)

\* --------------------------------------------- paths handed to the visitors
\* The node reached from n over k parent links.
RECURSIVE AncestorAt(_, _)
AncestorAt(n, k) == IF k <= 0 THEN n ELSE AncestorAt(parent[n], k - 1)

\* C16: every visitor invocation of foreach_descendant, for new and for
\* transpile_tree alike, was handed as path the names on the tree path from
\* the start node (exclusive) down to the child it visits, so the path's depth
\* is the child's distance from the start node; every entry of script_stack
\* has depth at least 1, and that many parent links lead from its node to
\* exactly the entry script.
C16_PathIsTreePath ==
    /\ \A i \in 1..Len(visited) :
        /\ DistanceFrom(walkStart, visited[i].node) > 0
        /\ visited[i].path = NamesFrom(walkStart, visited[i].node)
        /\ PathDepth(visited[i].path) = DistanceFrom(walkStart, visited[i].node)
    /\ \A i \in 1..Len(scriptStack) :
        /\ scriptStack[i].depth >= 1
        /\ AncestorAt(scriptStack[i].node, scriptStack[i].depth) = sourceScript
        /\ \A k \in 0..(scriptStack[i].depth - 1) :
            AncestorAt(scriptStack[i].node, k) # sourceScript

\* The collection walk is over; it put a child and a grandchild of the entry
\* script on script_stack, the grandchild visited after its parent's path had
\* been popped and pushed again.
C16_Witness ==
    /\ pc = "process"
    /\ \E i, j \in 1..Len(scriptStack) :
        /\ scriptStack[i].depth = 1
        /\ scriptStack[j].depth = 2
        /\ parent[scriptStack[j].node] = scriptStack[i].node

\* ------------------------------------------- references to the globals object
\* local _proxyGlobals = require(script.Parent...).Globals, lexeme by lexeme
GlobalsRequireText(depth) ==
    <<"local", " ", "_proxyGlobals", " ", "=", " ", "require", "(", "script">>
    \o DotParents(depth) \o <<")", ".", "Globals", "\n">>

\* Where _proxyGlobals occurs in a text.
GlobalsPositions(text) == {i \in 1..Len(text) : text[i] = GLOBAL_VAR_NAME}

StartsWith(text, prefix) ==
    Len(text) >= Len(prefix) /\ SubSeq(text, 1, Len(prefix)) = prefix

\* C17: when transpile_source has finished at a depth above 0 and the printed
\* output mentions _proxyGlobals anywhere, the first statement of the output is
\* local _proxyGlobals = require(script.Parent...).Globals with one .Parent
\* per level of depth, so that the name's first occurrence is its declaration;
\* and globals() is true exactly when one of the flags globals, plugin, enums
\* is set.
C17_GlobalsDeclaredFirst ==
    /\ (pc = "done" /\ srcDepth > 0 /\ GlobalsPositions(PrintAst(srcAst)) # {}) =>
        /\ srcAst.stmts # <<>>
        /\ DeclaredName(srcAst.stmts[1]) = <<GLOBAL_VAR_NAME>>
        /\ StartsWith(PrintStmt(srcAst.stmts[1]), GlobalsRequireText(srcDepth))
        /\ StartsWith(PrintAst(srcAst), GlobalsRequireText(srcDepth))
        /\ \A i \in GlobalsPositions(PrintAst(srcAst)) : i >= 3
    /\ RequiresGlobals(srcRequires)
         <=> (srcRequires.globals \/ srcRequires.plugin \/ srcRequires.enums)

\* Two levels below the entry script all three flags were set: the output
\* mentions _proxyGlobals in the two member declarations and in a rewritten
\* call, after the globals-require.
C17_Witness ==
    /\ pc = "done" /\ srcDepth = 2
    /\ srcRequires = [globals |-> TRUE, plugin |-> TRUE, enums |-> TRUE]
    /\ Cardinality(GlobalsPositions(PrintAst(srcAst))) >= 4
    /\ StartsWith(PrintAst(srcAst), GlobalsRequireText(2))

\* ------------------------------------------------- process_script on failure
\* This step is a process_script call that returned an error.
ProcessScriptFailed ==
    /\ Len(processed') = Len(processed) + 1
    /\ ~processed'[Len(processed')].ok

\* C18: a process_script call that returns an error, for a missing string
\* Source or for a syntax error, at depth 0 or deeper, leaves the class and
\* the Source of its node as they were before the call.
C18_ErrorLeavesNodeUntouched ==
    [][ProcessScriptFailed =>
        /\ class'[processed'[Len(processed')].node] = class[processed'[Len(processed')].node]
        /\ source'[processed'[Len(processed')].node] = source[processed'[Len(processed')].node]]_vars

\* The same for calls below the entry script only.
ErrorBelowEntryLeavesNodeUntouched ==
    [][(ProcessScriptFailed /\ processed'[Len(processed')].depth > 0) =>
        /\ class'[processed'[Len(processed')].node] = class[processed'[Len(processed')].node]
        /\ source'[processed'[Len(processed')].node] = source[processed'[Len(processed')].node]]_vars

\* A failed call never changes the Source, whatever the depth.
ErrorLeavesSourceUntouched ==
    [][ProcessScriptFailed =>
        source'[processed'[Len(processed')].node] = source[processed'[Len(processed')].node]]_vars

====
